---- MODULE Spec2Model ----
(***************************************************************************)
(* Bubble Pop: the sprite action queue (BPSprite) and the gameplay         *)
(* controller (BPGameplayController) of bubblepop.py.                      *)
(*                                                                         *)
(* Time is counted in units of 1/300 s, so that every time constant of the *)
(* program (0.05 s, 0.2 s, 2.45 s, a third of a beat, ...) is an integer.  *)
(* Positions and opacities are exact rationals <<n, d>>: the program       *)
(* computes them in floating point from elapsed/duration.                  *)
(* One clock value is read per handler call.                               *)
(***************************************************************************)
EXTENDS Integers, Sequences, FiniteSets, TLC

VARIABLES
    now,              \* time.time() - timeLevelStart, in 1/300 s
    pc,               \* position of BPGame.run in its frame loop
    instants,         \* the times at which a frame can begin, ascending
    arrowData,        \* the ScheduledHits not spawned yet
    beats,            \* the beat schedule
    curBeat,          \* index into beats (0-based, as in the source)
    lastBeatTime,
    sprites,          \* the active arrow sprites
    flashers,         \* hit and miss cues
    hudArrowFlashers, \* the HUD lane flashers
    scoreDigits,      \* curImg of each score digit sprite
    score,
    arrowType,
    nextId,           \* identity of the next BPSprite object constructed
    crashed,          \* an uncaught exception ended the program
    trace,            \* what the last handler call executed (history)
    removedBy,        \* who removed which sprite from sprites, in order (history)
    events,           \* the events pygame.event.get() returned, not handled yet
    inputs,           \* the number of input events delivered so far
    frame,            \* the instant at which the current frame began (an index)
    RECORDING_MODE,   \* the switch of the build: the controller records keystrokes
    keystrokes,       \* the keystrokes recorded, times in seconds
    timingFile        \* the arrow timing file on disk: lines of tab-separated fields

vars == <<now, pc, instants, arrowData, beats, curBeat, lastBeatTime, sprites,
          flashers, hudArrowFlashers, scoreDigits, score, arrowType, nextId,
          crashed, trace, removedBy, events, inputs, frame, RECORDING_MODE,
          keystrokes, timingFile>>

-----------------------------------------------------------------------------
(* Exact rational arithmetic: <<n, d>> with d > 0 and gcd(n, d) = 1.       *)

Abs(i) == IF i < 0 THEN -i ELSE i

RECURSIVE GCD(_, _)
GCD(a, b) == IF b = 0 THEN a ELSE GCD(b, a % b)

Norm(n, d) ==
    LET s == IF d < 0 THEN -1 ELSE 1
        g == GCD(Abs(n), Abs(d))
    IN  <<(s * n) \div g, (s * d) \div g>>

R(i) == <<i, 1>>
RAdd(p, q) == Norm(p[1] * q[2] + q[1] * p[2], p[2] * q[2])
RSub(p, q) == Norm(p[1] * q[2] - q[1] * p[2], p[2] * q[2])
RMul(p, q) == Norm(p[1] * q[1], p[2] * q[2])
RDiv(p, q) == Norm(p[1] * q[2], p[2] * q[1])
RLeq(p, q) == p[1] * q[2] <= q[1] * p[2]
RLess(p, q) == p[1] * q[2] < q[1] * p[2]
RMin(p, q) == IF RLeq(p, q) THEN p ELSE q
RMax(p, q) == IF RLeq(p, q) THEN q ELSE p
RFloor(p) == p[1] \div p[2]

-----------------------------------------------------------------------------
(* Sequences *)

IndexOf(s, x) ==
    IF \E i \in 1..Len(s) : s[i] = x
    THEN CHOOSE i \in 1..Len(s) : s[i] = x /\ \A j \in 1..(i - 1) : s[j] # x
    ELSE 0

RemoveAt(s, i) == SubSeq(s, 1, i - 1) \o SubSeq(s, i + 1, Len(s))

InsertAt(s, i, x) == SubSeq(s, 1, i - 1) \o <<x>> \o SubSeq(s, i, Len(s))

Ids(s) == [i \in 1..Len(s) |-> s[i].id]

-----------------------------------------------------------------------------
(* BPSprite *)

ACTION_POSITION == "position"
ACTION_ALPHA == "alpha"
ACTION_CALLBACK == "callback"
ACTION_TERMINATE == "terminate"
ACTION_SET_IMAGE == "set_img"

Has(action, key) == key \in DOMAIN action

WithDefault(action, key, value) ==
    IF Has(action, key) THEN action ELSE action @@ (key :> value)

BPSprite(id, data, pos, imgObj, curImg) ==
    [id |-> id, data |-> data, pos |-> pos, imgObj |-> imgObj, curImg |-> curImg,
     actions |-> <<>>, terminated |-> FALSE, alpha |-> R(255)]

\* the defaults queueAction writes into the action
ActionDefaults(s, action, t) ==
    LET a1 == WithDefault(action, "start_time", t)
        a2 == WithDefault(a1, "blend", FALSE)
        a3 == WithDefault(a2, "pos_origin", s.pos)
        a4 == WithDefault(a3, "duration", 0)
    IN  WithDefault(a4, "alpha_origin", s.alpha)

\* queueAction without the sorted insertion: the action goes to the end
InsertPosAppend(actions, a) == Len(actions) + 1

\* the insertion of queueAction with <= for <: in front of an equal start time
InsertPosBeforeEqual(actions, a) ==
    IF \E i \in 1..Len(actions) : a.start_time <= actions[i].start_time
    THEN CHOOSE i \in 1..Len(actions) :
            /\ a.start_time <= actions[i].start_time
            /\ \A j \in 1..(i - 1) : ~(a.start_time <= actions[j].start_time)
    ELSE Len(actions) + 1

\* the index at which queueAction inserts: before the first queued action
\* whose start time is greater, at the end when there is none
InsertPos(actions, a) ==
    IF \E i \in 1..Len(actions) : a.start_time < actions[i].start_time
    THEN CHOOSE i \in 1..Len(actions) :
            /\ a.start_time < actions[i].start_time
            /\ \A j \in 1..(i - 1) : ~(a.start_time < actions[j].start_time)
    ELSE Len(actions) + 1

\* queueAction without its first statement, the terminated test
queueActionAlways(s, action, t) ==
    LET a == ActionDefaults(s, action, t)
    IN  [s EXCEPT !.actions = InsertAt(@, InsertPos(@, a), a)]

queueAction(s, action, t) ==
    IF s.terminated THEN s
    ELSE LET a == ActionDefaults(s, action, t)
         IN  [s EXCEPT !.actions = InsertAt(@, InsertPos(@, a), a)]

\* elapsed / duration, 100 for a duration of 0
PercElapsed(action, t) ==
    IF action.duration = 0 THEN R(100)
    ELSE Norm(t - action.start_time, action.duration)

TweenPos(action, perc) ==
    LET dx == RSub(action.pos_target[1], action.pos_origin[1])
        dy == RSub(action.pos_target[2], action.pos_origin[2])
    IN  <<RAdd(action.pos_origin[1], RMul(perc, dx)),
          RAdd(action.pos_origin[2], RMul(perc, dy))>>

\* the alpha step without max(min(.., 255), 0)
TweenAlphaRaw(action, perc) ==
    RAdd(action.alpha_origin, RMul(RSub(action.alpha_target, action.alpha_origin), perc))

TweenAlpha(action, perc) ==
    LET delta == RMul(RSub(action.alpha_target, action.alpha_origin), perc)
    IN  RMax(RMin(RAdd(action.alpha_origin, delta), R(255)), R(0))

-----------------------------------------------------------------------------
(* BPGameplayController: constants (times in 1/300 s) *)

NUM_ARROW_DIRECTIONS == 4
NUM_ARROW_TYPES == 4
NUM_ARROW_STATES == 3
IMG_ARROW_SIZE == <<60, 60>>
HUD_ARROW_START_POS == <<352, 50>>
ARROW_COLUMN_PAD == 5
ARROW_TIME_BOTTOM_TO_TOP == 900
ARROW_FADE_TIME == 60
HIT_THRESHOLDS == <<15, 30, 45>>
HIT_FLASHER_FADE_TIME == 75
NUM_HIT_TEXT_FLASHERS == 4
HIT_TEXT_FLASHER_SIZE == <<81, 15>>
MISS_FLASHER_SIZE == <<269, 49>>
MISS_FLASHER_Y == 290
MISS_FLASHER_FADE_TIME == 150
MISS_FLASHER_INDICATOR == "miss"
NUM_SCORE_DIGITS == 6
SCORE_VALUES == <<10, 5, 1>>
windowSize == <<960, 540>>

getColPosX(col) ==
    HUD_ARROW_START_POS[1] + (col * IMG_ARROW_SIZE[1]) + (col * ARROW_COLUMN_PAD)

-----------------------------------------------------------------------------
(* The controller state a handler call reads and writes, threaded through  *)
(* the calls it makes.  A list.remove of an absent element, or an index    *)
(* out of range, raises: the handler stops there and the program ends.     *)

World ==
    [sprites |-> sprites, flashers |-> flashers, hudArrowFlashers |-> hudArrowFlashers,
     arrowData |-> arrowData, curBeat |-> curBeat, lastBeatTime |-> lastBeatTime,
     scoreDigits |-> scoreDigits, score |-> score, arrowType |-> arrowType,
     nextId |-> nextId, crashed |-> FALSE, trace |-> <<>>, removedBy |-> removedBy,
     keystrokes |-> keystrokes, timingFile |-> timingFile]

Log(w, e) == [w EXCEPT !.trace = Append(@, e)]

Raise(w, what) == [Log(w, [ev |-> "raise", what |-> what]) EXCEPT !.crashed = TRUE]

IdIndex(list, id) ==
    IF \E i \in 1..Len(list) : list[i].id = id
    THEN CHOOSE i \in 1..Len(list) : list[i].id = id
    ELSE 0

\* self.sprites.remove(sprite): sprites are compared by identity
RemoveFromSprites(w, s, who) ==
    LET i == IdIndex(w.sprites, s.id)
    IN  IF i = 0 THEN Raise(w, "sprites.remove")
        ELSE [w EXCEPT !.sprites = RemoveAt(@, i),
                       !.removedBy = Append(@, [id |-> s.id, who |-> who, sprite |-> s])]

removeSprite(w, s) ==
    RemoveFromSprites(Log(w, [ev |-> "call", f |-> "removeSprite", id |-> s.id]),
                      s, "removeSprite")

removeFlasher(w, s) ==
    LET i == IdIndex(w.flashers, s.id)
        w1 == Log(w, [ev |-> "call", f |-> "removeFlasher", id |-> s.id])
    IN  IF i = 0 THEN Raise(w1, "flashers.remove")
        ELSE [w1 EXCEPT !.flashers = RemoveAt(@, i)]

\* a cue without its Terminate
CueFadeOnly(id, data, pos, img, fade, t) ==
    queueAction(BPSprite(id, data, pos, [name |-> img, frames |-> 1], 0),
                [action |-> ACTION_ALPHA, alpha_target |-> R(0),
                 start_time |-> t, duration |-> fade], t)

\* a cue: a fade from the current opacity to 0 and a Terminate at its end
Cue(id, data, pos, img, fade, t) ==
    LET s0 == BPSprite(id, data, pos, [name |-> img, frames |-> 1], 0)
        s1 == queueAction(s0, [action |-> ACTION_ALPHA, alpha_target |-> R(0),
                               start_time |-> t, duration |-> fade], t)
    IN  queueAction(s1, [action |-> ACTION_TERMINATE, delegate |-> "removeFlasher",
                         start_time |-> t + fade], t)

spawnMissFlasher(w, t) ==
    LET pos == <<RSub(RDiv(R(windowSize[1]), R(2)), RDiv(R(MISS_FLASHER_SIZE[1]), R(2))),
                 R(MISS_FLASHER_Y)>>
        sprite == Cue(w.nextId, MISS_FLASHER_INDICATOR, pos, "text_flasher_miss",
                      MISS_FLASHER_FADE_TIME, t)
    IN  [Log(w, [ev |-> "spawnMissFlasher", id |-> w.nextId])
            EXCEPT !.flashers = Append(@, sprite), !.nextId = @ + 1]

spawnHitFlasher(w, col, txtIdx, t) ==
    LET kept == SelectSeq(w.flashers, LAMBDA f : f.data # MISS_FLASHER_INDICATOR)
        x == R(getColPosX(col))
        y == R(HUD_ARROW_START_POS[2])
        xOffset == RDiv(R(IMG_ARROW_SIZE[1] - HIT_TEXT_FLASHER_SIZE[1]), R(2))
        yOffset == RDiv(R(IMG_ARROW_SIZE[2] - HIT_TEXT_FLASHER_SIZE[2]), R(2))
        sprite == Cue(w.nextId, "None", <<x, y>>, "hit", HIT_FLASHER_FADE_TIME, t)
        txtSprite == Cue(w.nextId + 1, "None", <<RAdd(x, xOffset), RAdd(y, yOffset)>>,
                         "text_flasher", HIT_FLASHER_FADE_TIME, t)
    IN  IF txtIdx >= NUM_HIT_TEXT_FLASHERS THEN Raise(w, "imgTextFlashers index")
        ELSE [Log(w, [ev |-> "spawnHitFlasher", col |-> col, txtIdx |-> txtIdx])
                EXCEPT !.flashers = kept \o <<sprite, txtSprite>>, !.nextId = @ + 2]

\* the statements that follow a call that may have raised
MissCue(w, t) == IF w.crashed THEN w ELSE spawnMissFlasher(w, t)

arrowMissDelegate(w, s, t) ==
    MissCue(RemoveFromSprites(
                Log(w, [ev |-> "call", f |-> "arrowMissDelegate", id |-> s.id]),
                s, "arrowMissDelegate"), t)

\* a third of the current beat interval (the schedules keep it a whole number)
BeatInterval(w) == (beats[w.curBeat + 1] - w.lastBeatTime) \div NUM_ARROW_STATES

\* the loop of spriteAddBeat with the image indices in the other order
RECURSIVE QueueSetImagesDown(_, _, _, _, _)
QueueSetImagesDown(s, i, nextBeatTime, interval, t) ==
    IF i >= NUM_ARROW_STATES THEN s
    ELSE QueueSetImagesDown(
            queueAction(s, [action |-> ACTION_SET_IMAGE,
                            set_img_idx |-> i,
                            start_time |-> nextBeatTime - (i * interval),
                            blend |-> TRUE], t),
            i + 1, nextBeatTime, interval, t)

RECURSIVE QueueSetImages(_, _, _, _, _)
QueueSetImages(s, i, nextBeatTime, interval, t) ==
    IF i >= NUM_ARROW_STATES THEN s
    ELSE QueueSetImages(
            queueAction(s, [action |-> ACTION_SET_IMAGE,
                            set_img_idx |-> NUM_ARROW_STATES - i - 1,
                            start_time |-> nextBeatTime - (i * interval),
                            blend |-> TRUE], t),
            i + 1, nextBeatTime, interval, t)

spriteAddBeat(w, s, t) ==
    LET nextBeatTime == beats[w.curBeat + 1]
        s1 == QueueSetImages(s, 0, nextBeatTime, BeatInterval(w), t)
    IN  queueAction(s1, [action |-> ACTION_CALLBACK, cb_func |-> "spriteAddBeat",
                         start_time |-> nextBeatTime, blend |-> TRUE], t)

hudArrowAddFlash(w, s, t) ==
    LET startTime == t
        endTime == startTime + BeatInterval(w)
        cbTime == beats[w.curBeat + 1]
        s1 == queueAction(s, [action |-> ACTION_ALPHA, alpha_target |-> R(255),
                              alpha_origin |-> R(0), start_time |-> startTime,
                              blend |-> TRUE], t)
        s2 == queueAction(s1, [action |-> ACTION_ALPHA, alpha_target |-> R(0),
                               alpha_origin |-> R(255), start_time |-> endTime,
                               blend |-> TRUE], t)
    IN  queueAction(s2, [action |-> ACTION_CALLBACK, cb_func |-> "hudArrowAddFlash",
                         start_time |-> cbTime, blend |-> TRUE], t)

\* action[cb_func](self) and action[delegate](self)
Call(f, w, s, t) ==
    CASE f = "arrowMissDelegate" -> [w |-> arrowMissDelegate(w, s, t), s |-> s]
      [] f = "removeSprite" -> [w |-> removeSprite(w, s), s |-> s]
      [] f = "removeFlasher" -> [w |-> removeFlasher(w, s), s |-> s]
      [] f = "spriteAddBeat" ->
            [w |-> Log(w, [ev |-> "call", f |-> f, id |-> s.id]), s |-> spriteAddBeat(w, s, t)]
      [] f = "hudArrowAddFlash" ->
            [w |-> Log(w, [ev |-> "call", f |-> f, id |-> s.id]), s |-> hudArrowAddFlash(w, s, t)]
      [] OTHER -> [w |-> Log(w, [ev |-> "call", f |-> f, id |-> s.id]), s |-> s]

-----------------------------------------------------------------------------
(* BPSprite.handleAction and BPSprite.update *)

\* self.actions.remove(action): the first queued action equal to it
RemoveAction(w, s, action) ==
    LET i == IndexOf(s.actions, action)
    IN  IF i = 0 THEN [w |-> Raise(w, "actions.remove"), s |-> s]
        ELSE [w |-> w, s |-> [s EXCEPT !.actions = RemoveAt(@, i)]]

ApplyAction(w, s, action, perc, t) ==
    CASE action.action = ACTION_POSITION ->
            [w |-> w, s |-> [s EXCEPT !.pos = TweenPos(action, perc)]]
      [] action.action = ACTION_ALPHA ->
            IF s.curImg >= s.imgObj.frames
            THEN [w |-> Raise(w, "imgObj index"), s |-> s]
            ELSE [w |-> w, s |-> [s EXCEPT !.alpha = TweenAlpha(action, perc)]]
      [] action.action = ACTION_CALLBACK ->
            IF Has(action, "cb_func") THEN Call(action.cb_func, w, s, t)
            ELSE [w |-> w, s |-> s]
      [] action.action = ACTION_TERMINATE ->
            IF Has(action, "delegate")
            THEN Call(action.delegate, w, [s EXCEPT !.terminated = TRUE], t)
            ELSE [w |-> w, s |-> [s EXCEPT !.terminated = TRUE]]
      [] action.action = ACTION_SET_IMAGE ->
            [w |-> w, s |-> [s EXCEPT !.curImg = action.set_img_idx]]
      [] OTHER -> [w |-> w, s |-> s]

\* handleAction without its last statement: a completed action stays queued
RetireNever(r, action, perc) == r

\* the last statement of handleAction with > for >=
RetireStrict(r, action, perc) ==
    IF r.w.crashed THEN r
    ELSE IF RLess(R(1), perc) THEN RemoveAction(r.w, r.s, action)
    ELSE r

\* if percElapsed >= 1: self.actions.remove(action)
Retire(r, action, perc) ==
    IF r.w.crashed THEN r
    ELSE IF RLeq(R(1), perc) THEN RemoveAction(r.w, r.s, action)
    ELSE r

Handle(w, s, action, perc, t) ==
    Retire(ApplyAction(Log(w, [ev |-> "exec", id |-> s.id, action |-> action,
                               head |-> s.actions[1], perc |-> perc]),
                       s, action, perc, t),
           action, perc)

\* handleAction without its first statement, the terminated test
handleActionAlways(w, s, action, t) == Handle(w, s, action, PercElapsed(action, t), t)

handleAction(w, s, action, t) ==
    IF s.terminated THEN [w |-> w, s |-> s]
    ELSE Handle(w, s, action, PercElapsed(action, t), t)

\* update without the head test: every due action runs
RunsAllDue(s, action, t) == t >= action.start_time

\* update with the head test alone: blend and Terminate do not count
RunsHeadOnly(s, action, t) == t >= action.start_time /\ action = s.actions[1]

\* whether update hands the action to handleAction
Runs(s, action, t) ==
    /\ t >= action.start_time
    /\ \/ action = s.actions[1]
       \/ action.blend = TRUE
       \/ action.action = ACTION_TERMINATE

\* the loop of update over list(self.actions), from index i of the copy
RECURSIVE UpdateLoop(_, _, _, _)
UpdateLoop(r, copy, i, t) ==
    IF i > Len(copy) \/ r.w.crashed THEN r
    ELSE IF t >= copy[i].start_time /\ r.s.actions = <<>>
         THEN [w |-> Raise(r.w, "actions[0]"), s |-> r.s]
    ELSE IF Runs(r.s, copy[i], t)
         THEN UpdateLoop(handleAction(r.w, r.s, copy[i], t), copy, i + 1, t)
    ELSE UpdateLoop(r, copy, i + 1, t)

\* update that goes on, after its walk over the copy, with the callbacks the
\* walk left in the queue
updateRequeued(w, s, t) ==
    IF s.terminated THEN [w |-> w, s |-> s]
    ELSE LET r == UpdateLoop([w |-> Log(w, [ev |-> "update", id |-> s.id]), s |-> s],
                             s.actions, 1, t)
         IN  UpdateLoop(r, SelectSeq(r.s.actions, LAMBDA a : a.action = ACTION_CALLBACK), 1, t)

update(w, s, t) ==
    IF s.terminated THEN [w |-> w, s |-> s]
    ELSE UpdateLoop([w |-> Log(w, [ev |-> "update", id |-> s.id]), s |-> s],
                    s.actions, 1, t)

-----------------------------------------------------------------------------
(* BPGameplayController: spawning, the frame update, the judge *)

KEYS == <<"j", "k", "i", "l">>

getKeyIndex(event) ==
    IF event.type \in {"KEYDOWN", "KEYUP"} /\ \E i \in 1..Len(KEYS) : KEYS[i] = event.key
    THEN (CHOOSE i \in 1..Len(KEYS) : KEYS[i] = event.key) - 1
    ELSE -1

KEY_QUIT_RECORDING == "space"

\* time.time() - timeLevelStart in seconds
Seconds(t) == Norm(t, 300)

\* the nearest integer to a rational that is not negative
Round(p) == (2 * p[1] + p[2]) \div (2 * p[2])

\* '%f' % x: the text of x to six decimals, kept as its count of millionths
FormatF(x) == [numeric |-> TRUE, millionths |-> Round(RMul(x, R(1000000)))]

\* float(text) of a numeric field
ParseFloat(field) == Norm(field.millionths, 1000000)

\* f.write('%f\t%f\t%f\n' % (down, up, key)) for each keystroke, in order; a
\* keystroke without its up time raises KeyError and ends the writing
RECURSIVE WriteKeystrokes(_, _, _)
WriteKeystrokes(w, ks, i) ==
    IF i > Len(ks) THEN w
    ELSE IF ~Has(ks[i], "up") THEN Raise(w, "KeyError: up")
    ELSE WriteKeystrokes(
            [w EXCEPT !.timingFile =
                Append(@, <<FormatF(ks[i].down), FormatF(ks[i].up), FormatF(R(ks[i].key))>>)],
            ks, i + 1)

\* for keystroke in self.keystrokes: every open keystroke of the key is closed
CloseOpen(ks, keyIndex, eventTime) ==
    [i \in 1..Len(ks) |->
        IF ks[i].key = keyIndex /\ ~Has(ks[i], "up")
        THEN ks[i] @@ [up |-> eventTime] ELSE ks[i]]

recordKeys(w, event, t) ==
    IF RECORDING_MODE = FALSE THEN w
    ELSE IF event.type \in {"KEYDOWN", "KEYUP"} /\ event.key = KEY_QUIT_RECORDING
         THEN WriteKeystrokes([Log(w, [ev |-> "write"]) EXCEPT !.timingFile = <<>>],
                              w.keystrokes, 1)
    ELSE IF getKeyIndex(event) >= 0
         THEN IF event.type = "KEYDOWN"
              THEN [w EXCEPT !.keystrokes =
                       Append(@, [down |-> Seconds(t), key |-> getKeyIndex(event)])]
              ELSE [w EXCEPT !.keystrokes = CloseOpen(@, getKeyIndex(event), Seconds(t))]
    ELSE w

ArrowImages(type, key) ==
    [name |-> "arrow", type |-> type, key |-> key, frames |-> NUM_ARROW_STATES]

pixelsPerSecond == RDiv(R(windowSize[2] + IMG_ARROW_SIZE[2]), R(ARROW_TIME_BOTTOM_TO_TOP))

\* (windowHeight - HUD y) * secondsPerPixel: 2.45 s, a whole number of time units
timeToHitZone ==
    RFloor(RMul(R(windowSize[2] - HUD_ARROW_START_POS[2]), RDiv(R(1), pixelsPerSecond)))

\* the frame a new arrow starts on, from the phase of the beat in progress
SpawnImg(w, t) ==
    LET timeSinceLastBeat == t - w.lastBeatTime
        timeBetweenBeats == beats[w.curBeat + 1] - w.lastBeatTime
    IN  (RFloor(RDiv(R(timeSinceLastBeat),
                     RDiv(R(timeBetweenBeats), R(NUM_ARROW_STATES)))) + 1)
            % NUM_ARROW_STATES

\* the miss callback due at the first hit threshold
MissDeadlineFirstTier(t) == t + timeToHitZone + HIT_THRESHOLDS[1]

\* time.time() + timeToHitZone + self.HIT_THRESHOLDS[2]
MissDeadline(t) == t + timeToHitZone + HIT_THRESHOLDS[3]

\* the travel time of an arrow whatever its lag
TravelDurationNominal(timeAdjustment) == ARROW_TIME_BOTTOM_TO_TOP

\* duration = self.ARROW_TIME_BOTTOM_TO_TOP - timeAdjustment
TravelDuration(timeAdjustment) == ARROW_TIME_BOTTOM_TO_TOP - timeAdjustment

\* the sprite spawnArrows builds for one arrow that is due
ArrowSprite(w, arrow, t) ==
    LET imgHeight == IMG_ARROW_SIZE[2]
        windowHeight == windowSize[2]
        spawnTime == arrow.down - timeToHitZone
        curKey == arrow.key
        colPosX == R(getColPosX(curKey))
        timeAdjustment == t - spawnTime
        duration == TravelDuration(timeAdjustment)
        startY == RSub(R(windowHeight), RMul(pixelsPerSecond, R(timeAdjustment)))
        s0 == BPSprite(w.nextId, arrow, <<colPosX, startY>>,
                       ArrowImages(w.arrowType, curKey), SpawnImg(w, t))
        s1 == queueAction(s0, [action |-> ACTION_POSITION,
                               pos_target |-> <<colPosX, R(-1 * imgHeight)>>,
                               duration |-> duration], t)
        s2 == queueAction(s1, [action |-> ACTION_ALPHA, alpha_target |-> R(0),
                               start_time |-> t + timeToHitZone,
                               duration |-> ARROW_FADE_TIME, blend |-> TRUE], t)
        s3 == queueAction(s2, [action |-> ACTION_CALLBACK, cb_func |-> "arrowMissDelegate",
                               start_time |-> MissDeadline(t),
                               blend |-> TRUE], t)
        s4 == queueAction(s3, [action |-> ACTION_TERMINATE, delegate |-> "removeSprite",
                               start_time |-> t + duration], t)
    IN  spriteAddBeat(w, s4, t)

RECURSIVE SpawnLoop(_, _, _, _, _)
SpawnLoop(w, data, i, unspawned, t) ==
    IF i > Len(data) THEN [w EXCEPT !.arrowData = unspawned]
    ELSE IF t >= data[i].down - timeToHitZone
         THEN SpawnLoop([Log(w, [ev |-> "spawn", id |-> w.nextId, line |-> data[i].line])
                            EXCEPT !.sprites = Append(@, ArrowSprite(w, data[i], t)),
                                   !.nextId = @ + 1],
                        data, i + 1, unspawned, t)
    ELSE SpawnLoop(w, data, i + 1, Append(unspawned, data[i]), t)

\* spawnArrows without its last statement, self.arrowData = unspawned
spawnArrowsKeepsPending(w, t) ==
    [SpawnLoop(w, w.arrowData, 1, <<>>, t) EXCEPT !.arrowData = w.arrowData]

spawnArrows(w, t) == SpawnLoop(w, w.arrowData, 1, <<>>, t)

RECURSIVE Pow10(_)
Pow10(n) == IF n = 0 THEN 1 ELSE 10 * Pow10(n - 1)

\* int(str(score).zfill(NUM_SCORE_DIGITS)[-1 * (i + 1)]) for digit sprite i
ScoreDigit(sc, i) == (sc \div Pow10(i)) % 10

updateScoreDigitSprites(w) ==
    [w EXCEPT !.scoreDigits = [i \in 1..NUM_SCORE_DIGITS |-> ScoreDigit(w.score, i - 1)]]

updateArrowTypes(w) ==
    LET type == (w.arrowType + 1) % NUM_ARROW_TYPES
    IN  [w EXCEPT !.arrowType = type,
                  !.sprites = [i \in 1..Len(w.sprites) |->
                                 [w.sprites[i] EXCEPT
                                    !.imgObj = ArrowImages(type, w.sprites[i].data.key)]]]

\* the catch-up as an if: one beat a frame
BeatLoopOnce(w, t) ==
    IF w.curBeat < Len(beats) - 1 /\ t >= beats[w.curBeat + 1]
    THEN [w EXCEPT !.lastBeatTime = beats[w.curBeat + 1], !.curBeat = @ + 1]
    ELSE w

\* the loop of handleUpdate that catches up with the beats that have passed
RECURSIVE BeatLoop(_, _)
BeatLoop(w, t) ==
    IF w.curBeat < Len(beats) - 1 /\ t >= beats[w.curBeat + 1]
    THEN BeatLoop([w EXCEPT !.lastBeatTime = beats[w.curBeat + 1], !.curBeat = @ + 1], t)
    ELSE w

\* the object's state after its update, stored where the object still is listed
StoreSprite(r, which) ==
    LET i == IdIndex(r.w[which], r.s.id)
    IN  IF i = 0 THEN r.w ELSE [r.w EXCEPT ![which][i] = r.s]

\* for sprite in <a copy of the list>: sprite.update()
RECURSIVE UpdateAll(_, _, _, _, _)
UpdateAll(w, which, copy, i, t) ==
    IF i > Len(copy) \/ w.crashed THEN w
    ELSE UpdateAll(StoreSprite(update(w, copy[i], t), which), which, copy, i + 1, t)

\* for sprite in list(self.<which>): sprite.update()
UpdateList(w, which, t) == UpdateAll(w, which, w[which], 1, t)

\* handleUpdate with the spawning moved after the updates
handleUpdateSpawnLast(w, t) ==
    spawnArrows(
        UpdateList(
            UpdateList(
                UpdateList(updateScoreDigitSprites(BeatLoop(w, t)), "hudArrowFlashers", t),
                "sprites", t),
            "flashers", t),
        t)

handleUpdate(w, t) ==
    IF RECORDING_MODE = TRUE THEN w
    ELSE
    UpdateList(
        UpdateList(
            UpdateList(updateScoreDigitSprites(spawnArrows(BeatLoop(w, t), t)),
                       "hudArrowFlashers", t),
            "sprites", t),
        "flashers", t)

\* the threshold loop with < for <=
HitTierStrict(delta) ==
    IF \E i \in 1..Len(HIT_THRESHOLDS) : Abs(delta) < HIT_THRESHOLDS[i]
    THEN CHOOSE i \in 1..Len(HIT_THRESHOLDS) :
            /\ Abs(delta) < HIT_THRESHOLDS[i]
            /\ \A j \in 1..(i - 1) : ~(Abs(delta) < HIT_THRESHOLDS[j])
    ELSE 0

\* the threshold loop without its break: the last threshold that matches
HitTierLast(delta) ==
    IF \E i \in 1..Len(HIT_THRESHOLDS) : Abs(delta) <= HIT_THRESHOLDS[i]
    THEN CHOOSE i \in 1..Len(HIT_THRESHOLDS) :
            /\ Abs(delta) <= HIT_THRESHOLDS[i]
            /\ \A j \in (i + 1)..Len(HIT_THRESHOLDS) : ~(Abs(delta) <= HIT_THRESHOLDS[j])
    ELSE 0

\* the index (from 1) of the first threshold the key-down is within, 0 for none
HitTier(delta) ==
    IF \E i \in 1..Len(HIT_THRESHOLDS) : Abs(delta) <= HIT_THRESHOLDS[i]
    THEN CHOOSE i \in 1..Len(HIT_THRESHOLDS) :
            /\ Abs(delta) <= HIT_THRESHOLDS[i]
            /\ \A j \in 1..(i - 1) : ~(Abs(delta) <= HIT_THRESHOLDS[j])
    ELSE 0

\* the score without the min(...)
AddScoreUncapped(sc, value) == sc + value

\* min(self.score + SCORE_VALUES[i], (10 ** NUM_SCORE_DIGITS) - 1)
AddScore(sc, value) ==
    IF sc + value <= Pow10(NUM_SCORE_DIGITS) - 1 THEN sc + value
    ELSE Pow10(NUM_SCORE_DIGITS) - 1

\* the hit arrow left in the list
KeepHead(list) == list

\* self.sprites.pop() for self.sprites.pop(0)
PopLast(list) == SubSeq(list, 1, Len(list) - 1)

\* self.sprites.pop(0)
PopHead(list) == Tail(list)

\* the threshold loop entered whatever the lane of the head
JudgeAnyLane(arrow, keyIndex, delta) == HitTier(delta)

\* the tier of a key-down against the head arrow: 0 unless its lane is the key's
Judge(arrow, keyIndex, delta) == IF arrow.key = keyIndex THEN HitTier(delta) ELSE 0

\* the body of the threshold loop of handleEvent for the tier that matched
ArrowTypes(w) == IF w.crashed THEN w ELSE updateArrowTypes(w)

Hit(w, keyIndex, tier, delta, t) ==
    LET i == tier - 1
        txtIdx == IF i >= 2 /\ delta < 0 THEN i + 1 ELSE i
        head == w.sprites[1]
    IN  ArrowTypes(spawnHitFlasher(
            [Log(w, [ev |-> "hit", id |-> head.id, tier |-> i, delta |-> delta])
                EXCEPT !.score = AddScore(@, SCORE_VALUES[tier]),
                       !.sprites = PopHead(@),
                       !.removedBy = Append(@, [id |-> head.id, who |-> "handleEvent",
                                                sprite |-> head])],
            keyIndex, txtIdx, t))

\* handleEvent counting a key-down on an empty active queue as a miss
handleEventMissOnEmpty(w, event, t) ==
    IF event.type = "KEYDOWN" /\ getKeyIndex(event) >= 0 THEN spawnMissFlasher(w, t) ELSE w

\* handleEvent after its first statement, the call of recordKeys
JudgeEvent(w, event, t) ==
    LET keyIndex == getKeyIndex(event)
    IN  IF w.crashed THEN w
        ELSE IF event.type = "KEYDOWN" /\ keyIndex >= 0 /\ Len(w.sprites) > 0
        THEN LET arrow == w.sprites[1].data
                 delta == arrow.down - t
                 tier == Judge(arrow, keyIndex, delta)
             IN  IF tier > 0 THEN Hit(w, keyIndex, tier, delta, t)
                 ELSE spawnMissFlasher(w, t)
        ELSE w

handleEvent(w, event, t) == JudgeEvent(recordKeys(w, event, t), event, t)

-----------------------------------------------------------------------------
(* The game: BPGameplayController.start, then the frame loop of BPGame.run *)

MaxSkip == 2          \* a frame lasts to one of the next MaxSkip instants
MaxInputs == 2        \* input events in a session
MaxFrameEvents == 2   \* input events between two frames

Arrow(line, down, key) == [line |-> line, down |-> down, up |-> down + 30, key |-> key]

RECURSIVE Every(_, _, _)
Every(step, from, to) == IF from > to THEN <<>> ELSE <<from>> \o Every(step, from + step, to)

\* sessions: a timing file, a beat file, the score, the instants of the frames.
\* The second is the end of a long session, its clock counted from that
\* moment: two arrows are left and the arrows before them were hit.
Scenarios ==
    {[arrows |-> <<Arrow(1, 30, 0), Arrow(2, 45, 2)>>, beats |-> <<90, 180>>,
      score |-> 0, instants |-> Every(15, 0, 45) \o <<75, 195, 210, 225>>],
     [arrows |-> <<Arrow(1, 750, 2), Arrow(2, 765, 2)>>, beats |-> <<360, 720, 1080>>,
      score |-> 999990, instants |-> Every(15, 0, 30) \o <<735, 765, 795, 810>>],
     [arrows |-> <<Arrow(1, 630, 0)>>, beats |-> <<360, 720>>,
      score |-> 0, instants |-> <<0, 615>> \o Every(15, 765, 795)]}

InputEvents ==
    {[type |-> "KEYDOWN", key |-> "j"], [type |-> "KEYDOWN", key |-> "i"],
     [type |-> "KEYUP", key |-> "j"], [type |-> "KEYDOWN", key |-> "space"]}

\* the lists of at most n input events
RECURSIVE EventLists(_)
EventLists(n) ==
    IF n = 0 THEN {<<>>}
    ELSE LET shorter == EventLists(n - 1)
         IN  shorter \cup {Append(l, e) : l \in shorter, e \in InputEvents}

HudArrowFlasher(i) ==
    LET s == [BPSprite(i, "hud_arrow_flasher",
                       <<R(getColPosX(i)), R(HUD_ARROW_START_POS[2])>>,
                       [name |-> "arrow_hud_flash", frames |-> 1], 0)
                EXCEPT !.alpha = R(0)]
    IN  hudArrowAddFlash([curBeat |-> 0, lastBeatTime |-> 0], s, 0)

\* the state start() leaves
Started(sc) ==
    /\ now = sc.instants[1]
    /\ pc = "events"
    /\ events = <<>>
    /\ inputs = 0
    /\ frame = 1
    /\ instants = sc.instants
    /\ arrowData = sc.arrows
    /\ beats = sc.beats
    /\ curBeat = 0
    /\ lastBeatTime = 0
    /\ sprites = <<>>
    /\ flashers = <<>>
    /\ hudArrowFlashers = [i \in 1..NUM_ARROW_DIRECTIONS |-> HudArrowFlasher(i - 1)]
    /\ scoreDigits = [i \in 1..NUM_SCORE_DIGITS |-> ScoreDigit(sc.score, i - 1)]
    /\ score = sc.score
    /\ arrowType = 0
    /\ nextId = NUM_ARROW_DIRECTIONS
    /\ crashed = FALSE
    /\ trace = <<>>
    /\ removedBy = <<>>
    /\ RECORDING_MODE = FALSE
    /\ keystrokes = <<>>
    /\ timingFile = <<>>

Init == \E sc \in Scenarios : Started(sc)

\* the controller as a handler call finds it; the first entry of the trace
\* keeps what the call found
Begin(call) ==
    [World EXCEPT !.trace = <<call @@ [score |-> score, sprites |-> sprites,
                                       flashers |-> flashers, arrowData |-> arrowData,
                                       removed |-> Len(removedBy), curBeat |-> curBeat,
                                       keystrokes |-> keystrokes]>>]

\* what a handler call leaves
Store(w) ==
    /\ sprites' = w.sprites
    /\ flashers' = w.flashers
    /\ hudArrowFlashers' = w.hudArrowFlashers
    /\ arrowData' = w.arrowData
    /\ curBeat' = w.curBeat
    /\ lastBeatTime' = w.lastBeatTime
    /\ scoreDigits' = w.scoreDigits
    /\ score' = w.score
    /\ arrowType' = w.arrowType
    /\ nextId' = w.nextId
    /\ crashed' = w.crashed
    /\ trace' = w.trace
    /\ removedBy' = w.removedBy
    /\ keystrokes' = w.keystrokes
    /\ timingFile' = w.timingFile

\* clockFPS.tick(FPS), then pygame.event.get(), in a session of at most
\* limit input events
Tick(skip, evs, limit) ==
    /\ pc = "tick"
    /\ ~crashed
    /\ frame + skip <= Len(instants)
    /\ frame' = frame + skip
    /\ inputs + Len(evs) <= limit
    /\ now' = instants[frame + skip]
    /\ events' = evs
    /\ inputs' = inputs + Len(evs)
    /\ pc' = "events"
    /\ UNCHANGED <<instants, arrowData, beats, curBeat, lastBeatTime, sprites, flashers,
                   hudArrowFlashers, scoreDigits, score, arrowType, nextId, crashed,
                   trace, removedBy, RECORDING_MODE, keystrokes, timingFile>>

ClockTick(skip, evs) == Tick(skip, evs, MaxInputs)

\* rootController.onEvent(event) for the next event of the frame
HandleEvent ==
    /\ pc = "events"
    /\ ~crashed
    /\ events # <<>>
    /\ Store(handleEvent(Begin([ev |-> "handleEvent", event |-> Head(events)]),
                         Head(events), now))
    /\ events' = Tail(events)
    /\ UNCHANGED <<now, pc, instants, beats, inputs, frame, RECORDING_MODE>>

\* rootController.onUpdate() once the events of the frame are handled
HandleUpdate ==
    /\ pc = "events"
    /\ ~crashed
    /\ events = <<>>
    /\ Store(handleUpdate(Begin([ev |-> "handleUpdate"]), now))
    /\ pc' = "tick"
    /\ UNCHANGED <<now, instants, beats, events, inputs, frame, RECORDING_MODE>>

Frame == \E skip \in 1..MaxSkip, evs \in EventLists(MaxFrameEvents) : ClockTick(skip, evs)

Next ==
    \/ Frame
    \/ HandleEvent
    \/ HandleUpdate

Spec == Init /\ [][Next]_vars

\* a pass of the loop of BPGame.run as pc and events show it: every step of
\* Next moves pc or takes an event off events, and one is possible as long as
\* the program has not died and the session has a frame left
LoopStep ==
    /\ ~crashed
    /\ (pc = "events" \/ frame < Len(instants))
    /\ pc' \in {"tick", "events"}
    /\ events' \in EventLists(MaxFrameEvents)
    /\ <<pc, events>>' # <<pc, events>>

\* the loop of BPGame.run never stops of itself
FairSpec == Spec /\ WF_<<pc, events>>(LoopStep)

\* the session of one hit at 5.0 s on lane 2, with frames at 5.04 s, 5.12 s, 5.30 s
LaneTwoScenario ==
    [arrows |-> <<Arrow(1, 1500, 2)>>, beats |-> <<600, 1200, 1800>>, score |-> 0,
     instants |-> <<0, 765, 1500, 1512, 1536, 1554, 1590>>]

LaneTwoInit == Started(LaneTwoScenario)

LaneTwoSpec == LaneTwoInit /\ [][Next]_vars

\* a timing file whose second line has the earlier hit time
UnsortedScenario ==
    [arrows |-> <<Arrow(1, 765, 2), Arrow(2, 750, 2)>>, beats |-> <<360, 720, 1080>>,
     score |-> 0, instants |-> Every(15, 0, 30) \o <<735, 750, 765, 795>>]

UnsortedInit == Started(UnsortedScenario)

UnsortedSpec == UnsortedInit /\ [][Next]_vars

\* beats at 1.0 s, 2.0 s, 3.0 s, an arrow spawned by the first frame and an
\* arrow due to spawn at 1.05 s; frames at 0.66 s, 1.33 s and 1.66 s among
\* others
PulseScenario ==
    [arrows |-> <<Arrow(1, 600, 0), Arrow(2, 1050, 1)>>, beats |-> <<300, 600, 900>>, score |-> 0,
     instants |-> <<0, 99, 198, 297, 399, 498, 531>>]

PulseInit == Started(PulseScenario)

PulseSpec == PulseInit /\ [][Next]_vars

-----------------------------------------------------------------------------
(* Recording: the build with RECORDING_MODE = True.  The program is        *)
(* launched on a timing file, records the keystrokes of a session, writes  *)
(* them on the stop key, and is launched again on what it wrote.           *)

MaxRecorded == 3      \* input events over the recording sessions
MaxLines == 2         \* lines of the timing file found at the first launch

Num(m) == [numeric |-> TRUE, millionths |-> m]

Junk == [numeric |-> FALSE, millionths |-> 0]

\* lines of a timing file: two well-formed, one with a field that is not a
\* number, one with two fields, one with four
TimingLines ==
    {<<Num(1000000), Num(1500000), Num(2000000)>>,
     <<Num(2000000), Num(2500000), Num(0)>>,
     <<Junk, Num(1500000), Num(2000000)>>,
     <<Num(1000000), Num(1500000)>>,
     <<Num(1000000), Num(1500000), Num(2000000), Num(9000000)>>}

RECURSIVE TimingFiles(_)
TimingFiles(n) ==
    IF n = 0 THEN {<<>>}
    ELSE LET shorter == TimingFiles(n - 1)
         IN  shorter \cup {Append(f, l) : f \in shorter, l \in TimingLines}

\* the loop of start over the lines of the timing file: split on tabs, float
\* of every field, zip with the three keys, int of the key
RECURSIVE LoadTimingFile(_, _, _)
LoadTimingFile(w, lines, i) ==
    IF i > Len(lines) THEN w
    ELSE IF \E k \in 1..Len(lines[i]) : ~lines[i][k].numeric
         THEN Raise(w, "ValueError: float")
    ELSE IF Len(lines[i]) < 3 THEN Raise(w, "KeyError: key")
    ELSE LoadTimingFile(
            [w EXCEPT !.arrowData =
                Append(@, [line |-> i, down |-> ParseFloat(lines[i][1]),
                           up |-> ParseFloat(lines[i][2]),
                           key |-> RFloor(ParseFloat(lines[i][3]))])],
            lines, i + 1)

\* start after the timing file is loaded
StartHud(w) ==
    IF w.crashed THEN w
    ELSE [w EXCEPT !.scoreDigits = [i \in 1..NUM_SCORE_DIGITS |-> ScoreDigit(w.score, i - 1)],
                   !.hudArrowFlashers =
                       [i \in 1..NUM_ARROW_DIRECTIONS |-> HudArrowFlasher(i - 1)],
                   !.nextId = NUM_ARROW_DIRECTIONS,
                   !.keystrokes = <<>>]

start(w) == StartHud(LoadTimingFile(w, w.timingFile, 1))

\* BPGameplayController.__init__
Constructed ==
    [sprites |-> <<>>, flashers |-> <<>>, hudArrowFlashers |-> <<>>, arrowData |-> <<>>,
     curBeat |-> 0, lastBeatTime |-> 0, scoreDigits |-> <<>>, score |-> 0,
     arrowType |-> 0, nextId |-> 0, crashed |-> FALSE, trace |-> <<>>,
     removedBy |-> <<>>, keystrokes |-> <<>>, timingFile |-> timingFile]

RecInstants == <<0, 100, 150, 300>>

RecInit ==
    /\ now = RecInstants[1]
    /\ pc = "start"
    /\ events = <<>>
    /\ inputs = 0
    /\ frame = 1
    /\ instants = RecInstants
    /\ beats = <<360, 720>>
    /\ RECORDING_MODE = TRUE
    /\ timingFile \in TimingFiles(MaxLines)
    /\ arrowData = Constructed.arrowData
    /\ curBeat = Constructed.curBeat
    /\ lastBeatTime = Constructed.lastBeatTime
    /\ sprites = Constructed.sprites
    /\ flashers = Constructed.flashers
    /\ hudArrowFlashers = Constructed.hudArrowFlashers
    /\ scoreDigits = Constructed.scoreDigits
    /\ score = Constructed.score
    /\ arrowType = Constructed.arrowType
    /\ nextId = Constructed.nextId
    /\ crashed = FALSE
    /\ trace = <<>>
    /\ removedBy = <<>>
    /\ keystrokes = Constructed.keystrokes

\* the last event handled was the stop key
StopKeyHandled ==
    /\ trace # <<>>
    /\ trace[1].ev = "handleEvent"
    /\ trace[1].event.key = KEY_QUIT_RECORDING

\* the program is launched: at first, or again once the stop key was handled
\* (the window is closed after it, or the writing raised): a new controller,
\* then start()
Launch ==
    /\ \/ pc = "start"
       \/ StopKeyHandled /\ (crashed \/ pc = "events")
    /\ Store(start([Constructed EXCEPT !.trace =
                       <<[ev |-> "start", keystrokes |-> keystrokes,
                          timingFile |-> timingFile, stopped |-> pc # "start"]>>]))
    /\ pc' = "events"
    /\ now' = instants[1]
    /\ frame' = 1
    /\ events' = <<>>
    /\ UNCHANGED <<instants, beats, inputs, RECORDING_MODE>>

RecFrame == \E skip \in 1..MaxSkip, evs \in EventLists(MaxFrameEvents) : Tick(skip, evs, MaxRecorded)

RecNext ==
    \/ Launch
    \/ RecFrame
    \/ HandleEvent
    \/ HandleUpdate

RecSpec == RecInit /\ [][RecNext]_vars

-----------------------------------------------------------------------------
(* One BPSprite driven directly: any action queued at any time, updates at *)
(* any pace.  The callbacks of these actions are absent; the delegate of    *)
(* the Terminates is a function of the client that changes nothing here.   *)

MaxQueued == 3        \* actions queued on the sprite in a run
MaxSpriteTime == 4    \* the clock stops here
MaxStep == 2          \* time between two updates

\* the actions queued; a key left out takes the default of queueAction
SpriteActions ==
    {[action |-> ACTION_POSITION, pos_target |-> <<R(12), R(-6)>>],
     [action |-> ACTION_POSITION, pos_target |-> <<R(12), R(-6)>>, duration |-> 3],
     [action |-> ACTION_POSITION, pos_target |-> <<R(-3), R(9)>>, pos_origin |-> <<R(6), R(1)>>,
      start_time |-> 2, duration |-> 2, blend |-> TRUE],
     [action |-> ACTION_ALPHA, alpha_target |-> R(100)],
     [action |-> ACTION_ALPHA, alpha_target |-> R(300), alpha_origin |-> R(50),
      duration |-> 3, blend |-> TRUE],
     [action |-> ACTION_ALPHA, alpha_target |-> R(-20), start_time |-> 1, duration |-> 2],
     [action |-> ACTION_CALLBACK],
     [action |-> ACTION_CALLBACK, start_time |-> 1, blend |-> TRUE],
     [action |-> ACTION_TERMINATE, delegate |-> "observer"],
     [action |-> ACTION_TERMINATE, delegate |-> "observer", start_time |-> 2],
     [action |-> ACTION_SET_IMAGE, set_img_idx |-> 2, start_time |-> 0],
     [action |-> ACTION_SET_IMAGE, set_img_idx |-> 1]}

SpriteInit ==
    /\ now = 0
    /\ pc = "sprite"
    /\ events = <<>>
    /\ inputs = 0
    /\ frame = 0
    /\ instants = <<>>
    /\ arrowData = <<>>
    /\ beats = <<>>
    /\ curBeat = 0
    /\ lastBeatTime = 0
    /\ sprites = <<BPSprite(0, "None", <<R(0), R(0)>>, [name |-> "sprite", frames |-> 3], 0)>>
    /\ flashers = <<>>
    /\ hudArrowFlashers = <<>>
    /\ scoreDigits = <<>>
    /\ score = 0
    /\ arrowType = 0
    /\ nextId = 1
    /\ crashed = FALSE
    /\ trace = <<>>
    /\ removedBy = <<>>
    /\ RECORDING_MODE = FALSE
    /\ keystrokes = <<>>
    /\ timingFile = <<>>

\* sprite.queueAction(action)
Queue(action) ==
    /\ pc = "sprite"
    /\ ~crashed
    /\ inputs < MaxQueued
    /\ inputs' = inputs + 1
    /\ sprites' = <<queueAction(sprites[1], action, now)>>
    /\ trace' = <<[ev |-> "queueAction", action |-> action, before |-> sprites[1]]>>
    /\ UNCHANGED <<now, pc, instants, arrowData, beats, curBeat, lastBeatTime, flashers,
                   hudArrowFlashers, scoreDigits, score, arrowType, nextId, crashed,
                   removedBy, events, frame, RECORDING_MODE, keystrokes, timingFile>>

\* time passes, then sprite.update()
Update(dt) ==
    /\ pc = "sprite"
    /\ ~crashed
    /\ now + dt <= MaxSpriteTime
    /\ now' = now + dt
    /\ Store(StoreSprite(update(Begin([ev |-> "Update"]), sprites[1], now + dt), "sprites"))
    /\ UNCHANGED <<pc, instants, beats, events, inputs, frame, RECORDING_MODE>>

SpriteNext ==
    \/ \E action \in SpriteActions : Queue(action)
    \/ \E dt \in 0..MaxStep : Update(dt)

SpriteSpec == SpriteInit /\ [][SpriteNext]_vars

-----------------------------------------------------------------------------
(* Properties of the action queue, checked under SpriteSpec *)

AllSprites == sprites \o flashers \o hudArrowFlashers

Sorted(actions) ==
    \A i \in 1..(Len(actions) - 1) : actions[i].start_time <= actions[i + 1].start_time

IsExec(e) == e.ev = "exec"

\* the actions the last handler call executed, in order
Execs == SelectSeq(trace, IsExec)

Exclusive(action) == action.blend = FALSE /\ action.action # ACTION_TERMINATE

IsExclusiveExec(e) == IsExec(e) /\ Exclusive(e.action)

ExclusiveExecs == SelectSeq(trace, IsExclusiveExec)

\* C1: in every reachable state, whatever was queued (start times earlier
\* than those already queued included) and whatever the updates removed, the
\* action queue of every sprite is in non-decreasing order of start time.
C1_QueueSorted == \A i \in 1..Len(AllSprites) : Sorted(AllSprites[i].actions)

\* an action was just queued in front of one that starts later
C1_Witness ==
    /\ pc = "sprite"
    /\ trace # <<>>
    /\ trace[1].ev = "queueAction"
    /\ Has(trace[1].action, "start_time")
    /\ \E i \in 1..Len(trace[1].before.actions) :
          trace[1].action.start_time < trace[1].before.actions[i].start_time
    /\ Len(sprites[1].actions) = Len(trace[1].before.actions) + 1

\* C2 (as claimed): one update of one sprite executes at most one action
\* that is neither blended nor a Terminate.
C2_AtMostOneExclusive == pc = "sprite" => Len(ExclusiveExecs) <= 1

\* C2 (amended): every action that is neither blended nor a Terminate and
\* that an update executes is equal to the head of the queue at the moment it
\* is executed; a second one runs in the same update only after the one
\* before it completed and was removed, or as an equal copy of it.
C2_ExclusiveIsHead ==
    /\ \A i \in 1..Len(ExclusiveExecs) : ExclusiveExecs[i].action = ExclusiveExecs[i].head
    /\ pc = "sprite" =>
          \A i \in 1..(Len(ExclusiveExecs) - 1) :
              \/ RLeq(R(1), ExclusiveExecs[i].perc)
              \/ ExclusiveExecs[i].action = ExclusiveExecs[i + 1].action

\* an update ran two such actions: the first completed, the second did not
C2_Witness ==
    /\ pc = "sprite"
    /\ Len(ExclusiveExecs) = 2
    /\ ExclusiveExecs[1].action # ExclusiveExecs[2].action
    /\ RLess(ExclusiveExecs[2].perc, R(1))

IsPositionExec(e) == IsExec(e) /\ e.action.action = ACTION_POSITION

PositionExecs == SelectSeq(trace, IsPositionExec)

IsAlphaExec(e) == IsExec(e) /\ e.action.action = ACTION_ALPHA

AlphaExecs == SelectSeq(trace, IsAlphaExec)

Clamp01(perc) == RMax(RMin(perc, R(1)), R(0))

\* C3: a step of a position tween of duration > 0 leaves the sprite at
\* origin + clamp(t, 0, 1) x (target - origin), t = elapsed / duration; the
\* step that completes the tween leaves it at the target, not beyond.
C3_PositionClamped ==
    (pc = "sprite" /\ PositionExecs # <<>>) =>
        LET e == PositionExecs[Len(PositionExecs)]
        IN  e.action.duration > 0 =>
                sprites[1].pos = TweenPos(e.action, Clamp01(Norm(now - e.action.start_time,
                                                                 e.action.duration)))

\* C4: a position or opacity tween of duration 0 is evaluated with
\* progress 1: the step that executes it leaves the position (the opacity,
\* for a target within [0, 255]) at the target.
C4_InstantTweenReachesTarget ==
    /\ (pc = "sprite" /\ PositionExecs # <<>>) =>
          LET e == PositionExecs[Len(PositionExecs)]
          IN  e.action.duration = 0 => sprites[1].pos = e.action.pos_target
    /\ (pc = "sprite" /\ AlphaExecs # <<>>) =>
          LET e == AlphaExecs[Len(AlphaExecs)]
          IN  (/\ e.action.duration = 0
               /\ RLeq(R(0), e.action.alpha_target)
               /\ RLeq(e.action.alpha_target, R(255)))
                  => sprites[1].alpha = e.action.alpha_target

\* the last step was an update of the sprite
AfterSpriteUpdate == pc = "sprite" /\ trace # <<>> /\ trace[1].ev = "Update"

\* the sprite and its queue as that update found them
SpriteBefore == trace[1].sprites[1]

Copies(actions, a) == Cardinality({i \in 1..Len(actions) : actions[i] = a})

\* the executions of this action by the update that completed it
Completions(a) ==
    Cardinality({i \in 1..Len(Execs) : Execs[i].action = a /\ RLeq(R(1), Execs[i].perc)})

Queued(actions) == {actions[i] : i \in 1..Len(actions)}

\* C18 (as claimed): an executed action leaves the queue in that update if
\* and only if its progress is >= 1; hence an action of duration 0 that is
\* due is off the queue after the next update of its (not terminated)
\* entity.
C18_InstantGoneAfterNextUpdate ==
    (AfterSpriteUpdate /\ ~SpriteBefore.terminated) =>
        /\ \A a \in Queued(SpriteBefore.actions) :
              Copies(sprites[1].actions, a) = Copies(SpriteBefore.actions, a) - Completions(a)
        /\ \A a \in Queued(SpriteBefore.actions) :
              (a.duration = 0 /\ a.start_time <= now) =>
                  Copies(sprites[1].actions, a) < Copies(SpriteBefore.actions, a)

\* C18 (amended): an update removes from the queue exactly the actions it
\* executed with progress >= 1, once per such execution; an executed action
\* with progress < 1 stays queued; an action of duration 0 has progress >= 1
\* whenever it is executed, so the update that executes it removes it.
C18_RemovedIffComplete ==
    AfterSpriteUpdate =>
        /\ \A a \in Queued(SpriteBefore.actions) :
              Copies(sprites[1].actions, a) = Copies(SpriteBefore.actions, a) - Completions(a)
        /\ Queued(sprites[1].actions) \subseteq Queued(SpriteBefore.actions)
        /\ \A i \in 1..Len(Execs) :
              /\ Execs[i].action \in Queued(SpriteBefore.actions)
              /\ RLess(Execs[i].perc, R(1)) => Execs[i].action \in Queued(sprites[1].actions)
              /\ Execs[i].action.duration = 0 => RLeq(R(1), Execs[i].perc)

\* an update executed the head with progress < 1 and left it queued, and
\* left queued a due action of duration 0 that waits behind the head
C18_Witness ==
    /\ AfterSpriteUpdate
    /\ Len(Execs) = 1
    /\ RLess(Execs[1].perc, R(1))
    /\ sprites[1].actions = SpriteBefore.actions
    /\ \E i \in 2..Len(sprites[1].actions) :
          sprites[1].actions[i].duration = 0 /\ sprites[1].actions[i].start_time <= now

IsTerminateExec(e) == IsExec(e) /\ e.action.action = ACTION_TERMINATE

TerminateExecs == SelectSeq(trace, IsTerminateExec)

IsCall(e) == e.ev = "call"

Calls == SelectSeq(trace, IsCall)

DueTerminates(s) ==
    {i \in 1..Len(s.actions) :
        s.actions[i].action = ACTION_TERMINATE /\ s.actions[i].start_time <= now}

\* an update executes a Terminate only on an entity not yet terminated, at
\* most one, and then the entity is terminated and the delegate of that
\* Terminate was called once, with the entity; no Terminate, no call
TerminatesOnce ==
    AfterSpriteUpdate =>
        /\ Len(TerminateExecs) <= 1
        /\ Len(Calls) = Len(TerminateExecs)
        /\ Len(TerminateExecs) = 1 =>
              /\ ~SpriteBefore.terminated
              /\ sprites[1].terminated
              /\ Calls[1].f = TerminateExecs[1].action.delegate
              /\ Calls[1].id = sprites[1].id
        /\ Len(TerminateExecs) = 0 => sprites[1].terminated = SpriteBefore.terminated

\* C19: a Terminate that executes sets terminated and calls its delegate
\* once with the entity; the terminated flag is never cleared, so over a
\* whole execution the delegate of an entity is called at most once, also
\* with several Terminates queued or due in the same update.
C19_TerminateOnce ==
    []TerminatesOnce /\ [][sprites[1].terminated => sprites'[1].terminated]_vars

\* two Terminates were due in one update: one ran, the other stays queued
C19_Witness ==
    /\ AfterSpriteUpdate
    /\ Len(TerminateExecs) = 1
    /\ Len(Calls) = 1
    /\ Cardinality(DueTerminates(SpriteBefore)) >= 2
    /\ DueTerminates(sprites[1]) # {}

DueActions(s) == {i \in 1..Len(s.actions) : s.actions[i].start_time <= now}

\* the Terminate an update executes is the last thing that update does
\* but for the call of its delegate: no action runs after it
TerminateEndsUpdate ==
    AfterSpriteUpdate /\ Len(TerminateExecs) = 1 =>
        /\ IsTerminateExec(Execs[Len(Execs)])
        /\ IsCall(trace[Len(trace)])

\* on a terminated entity a queueAction or an update changes nothing of it
\* (queue, position, opacity, image) and executes or calls nothing
NoOpWhenTerminated ==
    sprites[1].terminated =>
        /\ sprites'[1] = sprites[1]
        /\ \A i \in 1..Len(trace') : ~IsExec(trace'[i]) /\ ~IsCall(trace'[i])

\* C20: once an entity is terminated queueAction and update are no-ops, and
\* the actions still queued when it terminated, those due in the same update
\* after the Terminate included, never run.
C20_TerminatedIsInert == []TerminateEndsUpdate /\ [][NoOpWhenTerminated]_vars

\* an update found a terminated entity with a due action queued and left it
C20_Witness ==
    /\ AfterSpriteUpdate
    /\ SpriteBefore.terminated
    /\ DueActions(SpriteBefore) # {}
    /\ sprites[1] = SpriteBefore
    /\ Len(trace) = 1

Due(action) == action.start_time <= now

Bypasses(action) == action.blend = TRUE \/ action.action = ACTION_TERMINATE

DueBypass(action) == Due(action) /\ Bypasses(action)

ExecBypasses(e) == IsExec(e) /\ Bypasses(e.action)

ActionsOf(es) == [i \in 1..Len(es) |-> es[i].action]

\* the queue the update found, up to its first due Terminate
UpToTerminate(actions) ==
    LET T == {i \in 1..Len(actions) :
                 actions[i].action = ACTION_TERMINATE /\ Due(actions[i])}
    IN  IF T = {} THEN actions
        ELSE SubSeq(actions, 1, CHOOSE i \in T : \A j \in T : i <= j)

\* C21: an update of a live entity executes every due action that is blended
\* or a Terminate, wherever it is queued, in queue order, up to and including
\* the first due Terminate.
C21_DueBypassRuns ==
    AfterSpriteUpdate /\ ~SpriteBefore.terminated =>
        SelectSeq(UpToTerminate(SpriteBefore.actions), DueBypass)
            = ActionsOf(SelectSeq(trace, ExecBypasses))

\* a blended action that is not the head ran in the update that ran the head
C21_Witness ==
    /\ AfterSpriteUpdate
    /\ Len(Execs) >= 2
    /\ Execs[1].action = SpriteBefore.actions[1]
    /\ ~Bypasses(Execs[1].action)
    /\ \E i \in 2..Len(Execs) :
          /\ Execs[i].action.blend = TRUE
          /\ Execs[i].action # Execs[i].head

\* every execution is of a due action
ExecsAreDue == \A i \in 1..Len(Execs) : Execs[i].action.start_time <= now

\* an update visits each queue entry once, and an entry that runs without
\* completing stays the head: an exclusive execution after it in the same
\* update is the execution of an entry that is not the head
NonHeadExclusiveRuns ==
    \E i, j \in 1..Len(ExclusiveExecs) :
        i < j /\ RLess(ExclusiveExecs[i].perc, R(1))

\* C22: no action is executed before its start time, and an action that is
\* neither blended nor a Terminate is executed only as the head of the queue.
C22_OnlyDueOnlyHead == pc = "sprite" => ExecsAreDue /\ ~NonHeadExclusiveRuns

Opaque(alpha) == RLeq(R(0), alpha) /\ RLeq(alpha, R(255))

\* C23: every step of an alpha tween leaves the opacity of the sprite within
\* [0, 255], whatever the origin, the target and the time elapsed.
C23_AlphaClamped ==
    (pc = "sprite" /\ AlphaExecs # <<>>) =>
        /\ \A i \in 1..Len(AlphaExecs) :
              Opaque(TweenAlpha(AlphaExecs[i].action, AlphaExecs[i].perc))
        /\ sprites[1].alpha = TweenAlpha(AlphaExecs[Len(AlphaExecs)].action,
                                         AlphaExecs[Len(AlphaExecs)].perc)
        /\ Opaque(sprites[1].alpha)

\* a step past the end of a tween whose target lies outside [0, 255]
C23_Witness ==
    /\ pc = "sprite"
    /\ AlphaExecs # <<>>
    /\ LET e == AlphaExecs[Len(AlphaExecs)]
       IN  /\ ~Opaque(e.action.alpha_target)
           /\ e.action.duration > 0
           /\ RLess(R(1), e.perc)
           /\ ~Opaque(TweenAlphaRaw(e.action, e.perc))
    /\ sprites[1].alpha \in {R(0), R(255)}

\* the last step queued an action on a sprite that was not terminated
JustQueued ==
    /\ pc = "sprite"
    /\ trace # <<>>
    /\ trace[1].ev = "queueAction"
    /\ ~trace[1].before.terminated

\* the action as queueAction stores it
QueuedAction == ActionDefaults(trace[1].before, trace[1].action, now)

\* C31: queueAction inserts the new action at the first index whose start
\* time is strictly greater: after every queued action that starts no later,
\* those with an equal start time included, and the actions already queued
\* keep their order.
C31_StableInsertion ==
    JustQueued =>
        LET old == trace[1].before.actions
            new == sprites[1].actions
        IN  \E k \in 1..Len(new) :
                /\ new[k] = QueuedAction
                /\ RemoveAt(new, k) = old
                /\ \A j \in 1..(k - 1) : old[j].start_time <= QueuedAction.start_time
                /\ \A j \in k..Len(old) : old[j].start_time > QueuedAction.start_time

\* the new action went behind a different action with the same start time
\* and in front of a later one
C31_Witness ==
    /\ JustQueued
    /\ \E k \in 2..(Len(sprites[1].actions) - 1) :
          /\ sprites[1].actions[k] = QueuedAction
          /\ sprites[1].actions[k - 1] # QueuedAction
          /\ sprites[1].actions[k - 1].start_time = QueuedAction.start_time
          /\ sprites[1].actions[k + 1].start_time > QueuedAction.start_time
    /\ Len(sprites[1].actions) = Len(trace[1].before.actions) + 1

-----------------------------------------------------------------------------
(* Properties of the judge and of the active queue, checked under Spec *)

ScoreCap == Pow10(NUM_SCORE_DIGITS) - 1

\* the last handler call was handleEvent for a key-down of a mapped lane that
\* found the active queue non-empty
JudgedKeyDown ==
    /\ trace # <<>>
    /\ trace[1].ev = "handleEvent"
    /\ trace[1].event.type = "KEYDOWN"
    /\ getKeyIndex(trace[1].event) >= 0
    /\ trace[1].sprites # <<>>

\* the head arrow that call found, the lane pressed, hitTime - level time
JudgedHead == trace[1].sprites[1]

JudgedLane == getKeyIndex(trace[1].event)

JudgedDelta == JudgedHead.data.down - now

IsHit(e) == e.ev = "hit"

Hits == SelectSeq(trace, IsHit)

\* the removals the last handler call made
NewRemovals == SubSeq(removedBy, trace[1].removed + 1, Len(removedBy))

IdSet(list) == {list[i].id : i \in 1..Len(list)}

Routes == {"removeSprite", "arrowMissDelegate", "handleEvent"}

\* the call ran the code of the route that removed the entity
RanRoute(r) ==
    CASE r.who = "removeSprite" ->
            \E i \in 1..Len(trace) :
                /\ IsExec(trace[i]) /\ trace[i].id = r.id
                /\ trace[i].action.action = ACTION_TERMINATE
                /\ trace[i].action.delegate = "removeSprite"
      [] r.who = "arrowMissDelegate" ->
            \E i \in 1..Len(trace) :
                /\ IsExec(trace[i]) /\ trace[i].id = r.id
                /\ trace[i].action.action = ACTION_CALLBACK
                /\ trace[i].action.cb_func = "arrowMissDelegate"
      [] r.who = "handleEvent" ->
            /\ JudgedKeyDown
            /\ JudgedHead.id = r.id
            /\ Len(Hits) = 1
      [] OTHER -> FALSE

\* C5 (as claimed): every entity that left the active queue was removed by
\* the removeSprite delegate of its Terminate action, and by nothing else.
C5_OnlyByTerminate == \A i \in 1..Len(removedBy) : removedBy[i].who = "removeSprite"

\* C5 (amended): every entity that leaves the active queue leaves it once,
\* by one of three routes: the pop of a hit in handleEvent, its scheduled
\* miss callback arrowMissDelegate, or the removeSprite delegate of its
\* Terminate; nothing else takes an entity out of the queue, and a removed
\* entity is never in the queue again.
C5_LeavesOnceByOneRoute ==
    /\ \A i \in 1..Len(removedBy) : removedBy[i].who \in Routes
    /\ \A i, j \in 1..Len(removedBy) : removedBy[i].id = removedBy[j].id => i = j
    /\ \A i \in 1..Len(removedBy) : removedBy[i].id \notin IdSet(sprites)
    /\ trace # <<>> =>
          /\ IdSet(trace[1].sprites) \ IdSet(sprites) = IdSet(NewRemovals)
          /\ \A i \in 1..Len(NewRemovals) : RanRoute(NewRemovals[i])

\* one entity was removed by a hit and another by its miss callback
C5_Witness ==
    /\ \E i \in 1..Len(removedBy) : removedBy[i].who = "handleEvent"
    /\ \E i \in 1..Len(removedBy) : removedBy[i].who = "arrowMissDelegate"

\* C6: a key-down of a mapped lane that finds the active queue non-empty
\* and its head on another lane leaves the score and the active queue as
\* they were and spawns one miss cue, whatever the later entities are.
C6_MismatchIsMiss ==
    (JudgedKeyDown /\ JudgedHead.data.key # JudgedLane) =>
        /\ score = trace[1].score
        /\ sprites = trace[1].sprites
        /\ Len(removedBy) = trace[1].removed
        /\ Len(flashers) = Len(trace[1].flashers) + 1
        /\ SubSeq(flashers, 1, Len(trace[1].flashers)) = trace[1].flashers
        /\ flashers[Len(flashers)].data = MISS_FLASHER_INDICATOR
        /\ ~crashed

\* the head was on another lane while a later entity was on the pressed lane
\* and within a hit threshold
C6_Witness ==
    /\ JudgedKeyDown
    /\ JudgedHead.data.key # JudgedLane
    /\ \E i \in 2..Len(trace[1].sprites) :
          /\ trace[1].sprites[i].data.key = JudgedLane
          /\ Abs(trace[1].sprites[i].data.down - now) <= HIT_THRESHOLDS[1]

\* the tiers whose threshold a key-down at this distance is within
TiersWithin(delta) == {i \in 1..Len(HIT_THRESHOLDS) : Abs(delta) <= HIT_THRESHOLDS[i]}

Smallest(S) == CHOOSE i \in S : \A j \in S : i <= j

Min(a, b) == IF a <= b THEN a ELSE b

\* C7: a key-down on the lane of the head, at delta = hitTime - level time:
\* the tier is the smallest i with |delta| <= HIT_THRESHOLDS[i], the score
\* grows by SCORE_VALUES[i] (up to the cap), and the head and nothing else
\* leaves the active queue; with no such i the score and the queue are as
\* they were.
C7_FirstThresholdWins ==
    (JudgedKeyDown /\ JudgedHead.data.key = JudgedLane) =>
        IF TiersWithin(JudgedDelta) # {}
        THEN /\ Len(Hits) = 1
             /\ Hits[1].tier = Smallest(TiersWithin(JudgedDelta)) - 1
             /\ score = Min(trace[1].score + SCORE_VALUES[Smallest(TiersWithin(JudgedDelta))],
                            ScoreCap)
             /\ Ids(sprites) = Ids(Tail(trace[1].sprites))
             /\ Len(NewRemovals) = 1
             /\ NewRemovals[1].id = JudgedHead.id
             /\ ~crashed
        ELSE /\ Hits = <<>>
             /\ score = trace[1].score
             /\ sprites = trace[1].sprites
             /\ Len(removedBy) = trace[1].removed

\* a hit at a distance equal to a threshold
C7_Witness ==
    /\ JudgedKeyDown
    /\ JudgedHead.data.key = JudgedLane
    /\ \E i \in 1..Len(HIT_THRESHOLDS) :
          /\ Abs(JudgedDelta) = HIT_THRESHOLDS[i]
          /\ Len(Hits) = 1
          /\ Hits[1].tier = i - 1
          /\ score = trace[1].score + SCORE_VALUES[i]

\* C9: the score is between 0 and 10^NUM_SCORE_DIGITS - 1 and each score
\* digit is a digit; a hit at the cap leaves the score at the cap and
\* raises nothing.
C9_ScoreWithinDigits ==
    /\ score >= 0
    /\ score <= ScoreCap
    /\ \A i \in 1..Len(scoreDigits) : scoreDigits[i] \in 0..9
    /\ (trace # <<>> /\ Hits # <<>>) =>
          /\ ~crashed
          /\ trace[1].score = ScoreCap => score = ScoreCap

\* a hit that found the score at the cap
C9_Witness ==
    /\ trace # <<>>
    /\ Hits # <<>>
    /\ trace[1].score = ScoreCap
    /\ score = ScoreCap
    /\ ~crashed

\* the entities a hit removed
HitIds == {removedBy[i].id : i \in {j \in 1..Len(removedBy) : removedBy[j].who = "handleEvent"}}

\* the entities whose miss callback ran
MissedIds ==
    {removedBy[i].id : i \in {j \in 1..Len(removedBy) : removedBy[j].who = "arrowMissDelegate"}}

\* what a handler call did to the entity: an update, an action, a callback
Touches(e, id) == e.ev \in {"update", "exec", "call"} /\ e.id = id

\* C10: no entity is both hit and missed, no entity is hit twice, and once
\* a hit has removed an entity no later handler call updates it, executes
\* one of its actions, or invokes its miss callback or Terminate delegate.
C10_NoDoubleCounting ==
    /\ HitIds \cap MissedIds = {}
    /\ \A i, j \in 1..Len(removedBy) :
          (removedBy[i].who = "handleEvent" /\ removedBy[i].id = removedBy[j].id) => i = j
    /\ \A id \in HitIds : \A i \in 1..Len(trace) : ~Touches(trace[i], id)

MissDue(s) ==
    \E i \in 1..Len(s.actions) :
        /\ s.actions[i].action = ACTION_CALLBACK
        /\ s.actions[i].cb_func = "arrowMissDelegate"
        /\ s.actions[i].start_time <= now

\* a frame update ran after the miss callback of a hit entity came due
C10_Witness ==
    /\ pc = "tick"
    /\ trace # <<>>
    /\ trace[1].ev = "handleUpdate"
    /\ \E i \in 1..Len(removedBy) :
          /\ removedBy[i].who = "handleEvent"
          /\ MissDue(removedBy[i].sprite)

-----------------------------------------------------------------------------
(* The session of one arrow at 5.0 s on lane 2, checked under LaneTwoSpec *)

\* a key-down on lane 2 that found the score 0
LaneTwoKeyDown == JudgedKeyDown /\ JudgedLane = 2 /\ trace[1].score = 0

\* C8 (as claimed): from score 0, a key-down on lane 2 at 5.04 s scores 10,
\* at 5.12 s scores 5, at 5.30 s scores 0.
C8_Scenario ==
    LaneTwoKeyDown =>
        /\ now = 1512 => score = 10
        /\ now = 1536 => score = 5
        /\ now = 1590 => score = 0

\* C8 (amended): from score 0, a key-down on lane 2 at 5.04 s scores 10, at
\* 5.12 s scores 1 (0.12 s is beyond the second threshold and within the
\* third), at 5.30 s scores 0.
C8_ScenarioThirdTier ==
    LaneTwoKeyDown =>
        /\ now = 1512 => score = 10
        /\ now = 1536 => score = 1
        /\ now = 1590 => score = 0

\* the key-down at 5.12 s
C8_Witness == LaneTwoKeyDown /\ now = 1536 /\ Hits # <<>> /\ score = SCORE_VALUES[3]

-----------------------------------------------------------------------------
(* Properties of the cues, the spawner and the beat, checked under Spec *)

IsMissCue(f) == f.data = MISS_FLASHER_INDICATOR

MissCues == SelectSeq(flashers, IsMissCue)

\* C11: the cue list holds at most one miss cue in every state: a miss cue
\* that is spawned replaces the miss cue displayed, and removes no hit cue.
C11_AtMostOneMissCue == Len(MissCues) <= 1

\* the timing file of the session
Loaded ==
    (CHOOSE sc \in Scenarios \cup {LaneTwoScenario, UnsortedScenario, PulseScenario} :
        sc.instants = instants).arrows

\* the entities spawned so far: the active ones and the ones removed
Spawned == sprites \o [i \in 1..Len(removedBy) |-> removedBy[i].sprite]

Count(list, line) == Cardinality({i \in 1..Len(list) : list[i].line = line})

EntityCount(line) == Cardinality({i \in 1..Len(Spawned) : Spawned[i].data.line = line})

IsSpawn(e) == e.ev = "spawn"

Spawns == SelectSeq(trace, IsSpawn)

\* the arrow of this line of the timing file
ArrowOf(line) == CHOOSE a \in {Loaded[i] : i \in 1..Len(Loaded)} : a.line = line

\* the state a frame update leaves
AfterUpdate == pc = "tick" /\ trace # <<>> /\ trace[1].ev = "handleUpdate"

\* C12: every arrow of the timing file is either pending or has produced
\* exactly one entity, never both and never neither; a frame update spawns
\* exactly the pending arrows with level time >= hitTime - timeToHitZone,
\* so each is spawned in the first such frame; timeToHitZone is 2.45 s.
C12_SpawnedExactlyOnce ==
    /\ timeToHitZone * 100 = 245 * 300
    /\ \A i \in 1..Len(Loaded) :
          Count(arrowData, Loaded[i].line) + EntityCount(Loaded[i].line) = 1
    /\ AfterUpdate =>
          /\ \A i \in 1..Len(arrowData) : now < arrowData[i].down - timeToHitZone
          /\ \A i \in 1..Len(Spawns) :
                /\ Count(trace[1].arrowData, Spawns[i].line) = 1
                /\ now >= ArrowOf(Spawns[i].line).down - timeToHitZone
          /\ Len(Spawns) + Len(arrowData) = Len(trace[1].arrowData)

\* a frame update spawned one arrow and left a later one pending
C12_Witness ==
    /\ AfterUpdate
    /\ Len(Spawns) = 1
    /\ arrowData # <<>>
    /\ EntityCount(Spawns[1].line) = 1

\* where the arrow of an entity stands in the timing file
ScheduleIndex(s) == CHOOSE i \in 1..Len(Loaded) : Loaded[i] = s.data

\* C13: for every timing file, the entities of the active queue stand in
\* the order of their arrows in the timing file, so that the head is the
\* earliest-scheduled entity still active.
C13_QueueInScheduleOrder ==
    \A i, j \in 1..Len(sprites) : i < j => ScheduleIndex(sprites[i]) < ScheduleIndex(sprites[j])

\* the pulse callbacks queued on an entity
PulseCallbacks(s, f) ==
    {i \in 1..Len(s.actions) :
        s.actions[i].action = ACTION_CALLBACK /\ s.actions[i].cb_func = f}

LastBeat == beats[Len(beats)]

\* a flash-off of the HUD flasher queued by a pulse that began after the last
\* beat and before this frame
LateFlashOff(s) ==
    \E i \in 1..Len(s.actions) :
        /\ s.actions[i].action = ACTION_ALPHA
        /\ s.actions[i].alpha_target = R(0)
        /\ s.actions[i].start_time - BeatInterval(World) >= LastBeat
        /\ s.actions[i].start_time - BeatInterval(World) < now

\* C16: every active arrow has exactly one pulse callback (spriteAddBeat)
\* queued and every HUD flasher exactly one (hudArrowAddFlash), in every
\* state, the states after the last beat of the schedule included.
C16_OnePulseCallback ==
    ~crashed =>
        /\ \A i \in 1..Len(sprites) :
              Cardinality(PulseCallbacks(sprites[i], "spriteAddBeat")) = 1
        /\ \A i \in 1..Len(hudArrowFlashers) :
              Cardinality(PulseCallbacks(hudArrowFlashers[i], "hudArrowAddFlash")) = 1

\* after the last beat the pulse of a HUD flasher ran in one frame and again
\* in this one, and the pulse of an arrow ran
C16_Witness ==
    /\ AfterUpdate
    /\ ~crashed
    /\ now > LastBeat
    /\ LateFlashOff(hudArrowFlashers[1])
    /\ \E i \in 1..Len(trace) :
          /\ trace[i].ev = "call"
          /\ trace[i].f = "hudArrowAddFlash"
          /\ trace[i].id = hudArrowFlashers[1].id

\* after the last beat the pulse of an arrow that stays active ran
ArrowPulseAfterLastBeat ==
    /\ AfterUpdate
    /\ now > LastBeat
    /\ \E i \in 1..Len(trace) :
          /\ trace[i].ev = "call"
          /\ trace[i].f = "spriteAddBeat"
          /\ trace[i].id \in IdSet(sprites)

\* the beat state is that of curBeat beats consumed, and a frame update
\* leaves no beat that has passed unconsumed, the last one excepted
BeatState ==
    /\ curBeat >= 0
    /\ curBeat <= Len(beats) - 1
    /\ lastBeatTime = (IF curBeat = 0 THEN 0 ELSE beats[curBeat])
    /\ lastBeatTime < beats[curBeat + 1]
    /\ AfterUpdate => (curBeat = Len(beats) - 1 \/ now < beats[curBeat + 1])

\* C17: 0 <= curBeat <= len(beats) - 1 and curBeat never decreases;
\* lastBeatTime is 0 while curBeat = 0 and the beat before beats[curBeat]
\* otherwise, hence less than beats[curBeat]; after a frame update curBeat
\* is the last index or the level time is before beats[curBeat].
C17_BeatTracking == []BeatState /\ [][curBeat' >= curBeat]_vars

\* one frame update consumed two beats
C17_Witness == AfterUpdate /\ curBeat >= trace[1].curBeat + 2 /\ now < beats[curBeat + 1]

-----------------------------------------------------------------------------
(* The image pulse of one arrow, checked under PulseSpec *)

\* the sub-interval of the beat in progress the level time is in: 0, 1, 2
SubInterval(t) ==
    ((t - lastBeatTime) * NUM_ARROW_STATES) \div (beats[curBeat + 1] - lastBeatTime)

\* an image change of the entity that is due and still queued
SetImageDue(s) ==
    \E i \in 1..Len(s.actions) :
        s.actions[i].action = ACTION_SET_IMAGE /\ s.actions[i].start_time <= now

\* a frame update ran at this time and the first arrow is shown, every image
\* change due applied
Shows(t) ==
    /\ AfterUpdate
    /\ now = t
    /\ sprites # <<>>
    /\ sprites[1].data.line = 1
    /\ ~SetImageDue(sprites[1])

\* C14 (as claimed): with beats at 1.0 s, 2.0 s, 3.0 s and 3 images, the
\* entity shows image 2 at 0.66 s, image 1 at 1.33 s and image 0 at 1.66 s.
C14_CountsDown ==
    /\ Shows(198) => sprites[1].curImg = 2
    /\ Shows(399) => sprites[1].curImg = 1
    /\ Shows(498) => sprites[1].curImg = 0

\* C14 (amended): the images count up within a beat interval and reach
\* N-1 at the beat: from the end of the first sub-interval on, the entity
\* shows image (k + N - 1) mod N in sub-interval k = 0, 1, 2 of the beat in
\* progress; it shows image 0 at 0.66 s, image 2 at 1.33 s (1.33 s is before
\* 1 1/3 s) and image 0 at 1.66 s.
C14_CountsUp ==
    /\ Shows(198) => sprites[1].curImg = 0
    /\ Shows(399) => sprites[1].curImg = 2
    /\ Shows(498) => sprites[1].curImg = 0
    /\ \A i \in 1..Len(instants) :
          (Shows(instants[i]) /\ instants[i] >= beats[1] \div NUM_ARROW_STATES) =>
              sprites[1].curImg =
                  (SubInterval(now) + NUM_ARROW_STATES - 1) % NUM_ARROW_STATES

\* the frame at 1.33 s, after the first beat: the image is the last one
C14_Witness == Shows(399) /\ curBeat = 1 /\ sprites[1].curImg = NUM_ARROW_STATES - 1

\* the entities the last frame update spawned
SpawnedIds == {Spawns[i].id : i \in 1..Len(Spawns)}

\* C15: at the end of the frame update that spawns an entity, its image is
\* the image every arrow entity active before that update shows.
C15_SpawnMatchesPulse ==
    AfterUpdate =>
        \A i, j \in 1..Len(sprites) :
            (sprites[i].id \in SpawnedIds /\ sprites[j].id \in IdSet(trace[1].sprites)) =>
                sprites[i].curImg = sprites[j].curImg


-----------------------------------------------------------------------------
(* Properties of the event handler and of the frame, checked under Spec *)

\* the last handler call was handleEvent for a key-down of a mapped lane that
\* found the active queue empty
IdleKeyDown ==
    /\ trace # <<>>
    /\ trace[1].ev = "handleEvent"
    /\ trace[1].event.type = "KEYDOWN"
    /\ getKeyIndex(trace[1].event) >= 0
    /\ trace[1].sprites = <<>>

\* C24: a key-down of a mapped key on an empty active queue changes nothing:
\* not the score, the active queue, the schedule or the cues, and no miss cue
\* is spawned.
C24_IdleKeyDownIsNoOp ==
    IdleKeyDown =>
        /\ score = trace[1].score
        /\ sprites = <<>>
        /\ arrowData = trace[1].arrowData
        /\ flashers = trace[1].flashers
        /\ Len(removedBy) = trace[1].removed
        /\ Len(trace) = 1
        /\ ~crashed

\* such a key-down while arrows are still scheduled
C24_Witness == IdleKeyDown /\ arrowData # <<>> /\ pc = "events"

\* the queued actions of a kind on a sprite
OfKind(s, kind) == SelectSeq(s.actions, LAMBDA a : a.action = kind)

\* level time at which the arrow should have been spawned, and its lag
SpawnTimeOf(s) == s.data.down - timeToHitZone

\* a sprite of the active queue whose travel tween is still queued
Travelling(s) == OfKind(s, ACTION_POSITION) # <<>>

TravelOf(s) == OfKind(s, ACTION_POSITION)[1]

LagOf(s) == TravelOf(s).start_time - SpawnTimeOf(s)

\* C25: an arrow spawned with lag L, 0 <= L < T, starts at
\* screenHeight - speed x L with a travel tween of T - L: it moves at the
\* nominal speed, is on the line of the HUD arrows at its hit time, and its
\* Terminate is due at spawn time + T, whatever L is.
C25_CatchUp ==
    \A i \in 1..Len(sprites) :
        LET s == sprites[i]
            travel == TravelOf(s)
            L == LagOf(s)
        IN  (Travelling(s) /\ L < ARROW_TIME_BOTTOM_TO_TOP) =>
              /\ L >= 0
              /\ travel.pos_origin[2] = RSub(R(windowSize[2]), RMul(pixelsPerSecond, R(L)))
              /\ travel.duration = ARROW_TIME_BOTTOM_TO_TOP - L
              /\ RDiv(RSub(travel.pos_origin[2], travel.pos_target[2]), R(travel.duration))
                    = pixelsPerSecond
              /\ TweenPos(travel, PercElapsed(travel, s.data.down))[2]
                    = R(HUD_ARROW_START_POS[2])
              /\ \A j \in 1..Len(s.actions) :
                    s.actions[j].action = ACTION_TERMINATE =>
                        s.actions[j].start_time = SpawnTimeOf(s) + ARROW_TIME_BOTTOM_TO_TOP
              /\ OfKind(s, ACTION_TERMINATE) # <<>>

\* an arrow spawned late is in flight
C25_Witness ==
    \E i \in 1..Len(sprites) :
        /\ Travelling(sprites[i])
        /\ LagOf(sprites[i]) > 0
        /\ LagOf(sprites[i]) < ARROW_TIME_BOTTOM_TO_TOP
        /\ now > TravelOf(sprites[i]).start_time

-----------------------------------------------------------------------------
(* Properties of the recorder and of the loader, checked under RecSpec *)

\* the last handler call was start()
AfterStart == trace # <<>> /\ trace[1].ev = "start"

\* the (downTime, lane) pairs of a list of keystrokes or of scheduled hits
Pairs(list) == [i \in 1..Len(list) |-> <<list[i].down, list[i].key>>]

\* C26: the keystrokes of a session that ends with the stop key, written to
\* the timing file and loaded by the next start(), give the same
\* (downTime, lane) pairs in the same order.
C26_RoundTrip ==
    (AfterStart /\ trace[1].stopped) =>
        /\ ~crashed
        /\ Pairs(arrowData) = Pairs(trace[1].keystrokes)

\* the last handler call was handleEvent, in recording mode, for a mapped key
RecordedKey(type) ==
    /\ RECORDING_MODE
    /\ trace # <<>>
    /\ trace[1].ev = "handleEvent"
    /\ trace[1].event.type = type
    /\ getKeyIndex(trace[1].event) >= 0

OpenFor(ks, k) == {i \in 1..Len(ks) : ks[i].key = k /\ ~Has(ks[i], "up")}

\* C27: a key-up of key k closes the most recent open keystroke of k and
\* only that one, a release time recorded is never overwritten, and a
\* key-down appends one keystroke (down time, key) to the recording.
C27_KeyUpClosesOne ==
    /\ RecordedKey("KEYUP") =>
          LET before == trace[1].keystrokes
              open == OpenFor(before, getKeyIndex(trace[1].event))
          IN  /\ Len(keystrokes) = Len(before)
              /\ \A i \in 1..Len(before) :
                    IF i \in open /\ \A j \in open : j <= i
                    THEN keystrokes[i] = before[i] @@ [up |-> Seconds(now)]
                    ELSE keystrokes[i] = before[i]
    /\ RecordedKey("KEYDOWN") =>
          keystrokes = Append(trace[1].keystrokes,
                              [down |-> Seconds(now), key |-> getKeyIndex(trace[1].event)])

\* the timing file the first launch found
FoundFile == trace[1].timingFile

WellFormed(line) == Len(line) = 3 /\ \A k \in 1..Len(line) : line[k].numeric

\* C28: start() loads the timing file or nothing: a line with a field that
\* is not a number, or with other than three fields, fails the load and
\* leaves no scheduled hit; a file of well-formed lines loads whole.
C28_AllOrNothing ==
    (AfterStart /\ ~trace[1].stopped) =>
        IF \A i \in 1..Len(FoundFile) : WellFormed(FoundFile[i])
        THEN ~crashed /\ Len(arrowData) = Len(FoundFile)
        ELSE crashed /\ arrowData = <<>>

-----------------------------------------------------------------------------
(* Properties of removal and of the frame order, checked under Spec *)

CalledFor(f, id) ==
    \E i \in 1..Len(trace) : IsCall(trace[i]) /\ trace[i].f = f /\ trace[i].id = id

RemoveFailed ==
    \E i \in 1..Len(trace) : trace[i].ev = "raise" /\ trace[i].what = "sprites.remove"

\* C29: arrowMissDelegate and removeSprite are never both called for one
\* entity, whatever the length of a frame and the lag of the spawn, so that
\* sprites.remove never fails on an entity that is not in the list.
C29_NoAbsentRemoval ==
    /\ ~RemoveFailed
    /\ trace # <<>> =>
          \A id \in IdSet(trace[1].sprites) :
              ~(CalledFor("arrowMissDelegate", id) /\ CalledFor("removeSprite", id))

\* the positions in the trace at which update() was entered for this sprite
UpdatesOf(id) == {i \in 1..Len(trace) : trace[i].ev = "update" /\ trace[i].id = id}

\* a handler call for an event spawns nothing and advances no timeline; a
\* frame update that returns has advanced once, after spawning it, every
\* entity it spawned
FrameOrder ==
    /\ (trace # <<>> /\ trace[1].ev = "handleEvent") =>
          \A i \in 1..Len(trace) : trace[i].ev \notin {"spawn", "update", "exec"}
    /\ (trace # <<>> /\ trace[1].ev = "handleUpdate" /\ ~crashed) =>
          \A i \in 1..Len(trace) :
              IsSpawn(trace[i]) =>
                  /\ Cardinality(UpdatesOf(trace[i].id)) = 1
                  /\ \A j \in UpdatesOf(trace[i].id) : j > i
                  /\ trace[i].id \in IdSet(sprites)

\* while events of the frame are waiting the next step handles the first of
\* them, against the active queue as it stands; the update comes last
EventsFirst ==
    /\ (pc = "events" /\ events # <<>>) =>
          /\ trace'[1].ev = "handleEvent"
          /\ trace'[1].event = Head(events)
          /\ trace'[1].sprites = sprites
    /\ (trace' # <<>> /\ trace' # trace /\ trace'[1].ev = "handleUpdate") =>
          pc = "events" /\ events = <<>>
    /\ pc = "tick" => sprites' = sprites

\* C30: in every frame the waiting input events are judged before any
\* timeline is advanced, each against the active queue as the frame before
\* (and the events before it) left it, and an entity spawned in a frame is
\* advanced once in that frame.
C30_FrameOrder == []FrameOrder /\ [][EventsFirst]_vars

\* a frame that handled input events spawned an arrow and advanced it
C30_Witness ==
    /\ AfterUpdate
    /\ ~crashed
    /\ inputs > 0
    /\ Spawns # <<>>
    /\ \E i \in 1..Len(trace) :
          IsExec(trace[i]) /\ trace[i].id = Spawns[1].id /\ trace[i].action.action = ACTION_POSITION

-----------------------------------------------------------------------------
(* Properties of the pulse and of the deadlines of an arrow, under Spec *)

IsPulseExec(e) ==
    /\ IsExec(e)
    /\ e.action.action = ACTION_CALLBACK
    /\ Has(e.action, "cb_func")
    /\ e.action.cb_func \in {"spriteAddBeat", "hudArrowAddFlash"}

PulseExecs == SelectSeq(trace, IsPulseExec)

\* the start times of the pulse callbacks queued on the entity of this id
Rearmed(id, f) ==
    LET live == {sprites[k] : k \in 1..Len(sprites)}
                    \cup {hudArrowFlashers[k] : k \in 1..Len(hudArrowFlashers)}
    IN  UNION {{e.actions[i].start_time : i \in PulseCallbacks(e, f)} :
                  e \in {x \in live : x.id = id}}

\* the pulse callback that ran was re-armed at a later time
RearmedLater(e) == \A st \in Rearmed(e.id, e.action.cb_func) : st > e.action.start_time

\* C32: a pulse callback that fires re-arms the pulse at a strictly later
\* start time, so that it fires once per beat and never twice for one beat,
\* also after the last beat of the schedule.
C32_PulseOncePerBeat ==
    ~crashed => \A i \in 1..Len(PulseExecs) : RearmedLater(PulseExecs[i])

\* the same for the pulses that fire for a beat before the last
PulseBeforeLastBeat ==
    ~crashed =>
        \A i \in 1..Len(PulseExecs) :
            PulseExecs[i].action.start_time < LastBeat => RearmedLater(PulseExecs[i])

\* the end of the hit window of an arrow: hit time + the widest threshold
WindowEnd(s) == s.data.down + HIT_THRESHOLDS[Len(HIT_THRESHOLDS)]

Deadline(a) ==
    \/ a.action = ACTION_CALLBACK /\ Has(a, "cb_func") /\ a.cb_func = "arrowMissDelegate"
    \/ a.action = ACTION_TERMINATE

\* C33: the miss callback and the Terminate of an arrow are never due, and
\* never remove it, before its hit time + the widest hit threshold, whatever
\* the lag of its spawn.
C33_DeadlineAfterWindow ==
    /\ \A i \in 1..Len(sprites) : \A j \in 1..Len(sprites[i].actions) :
          Deadline(sprites[i].actions[j]) =>
              sprites[i].actions[j].start_time >= WindowEnd(sprites[i])
    /\ AfterUpdate =>
          \A i \in 1..Len(NewRemovals) :
              /\ NewRemovals[i].who \in {"arrowMissDelegate", "removeSprite"}
              /\ now >= WindowEnd(NewRemovals[i].sprite)

\* an arrow was removed by its miss callback at the very end of its window
C33_Witness ==
    /\ AfterUpdate
    /\ \E i \in 1..Len(NewRemovals) :
          /\ NewRemovals[i].who = "arrowMissDelegate"
          /\ now = WindowEnd(NewRemovals[i].sprite)

-----------------------------------------------------------------------------
(* Liveness of the active queue and of the cue list, checked under FairSpec *)

\* the identities an entity of a session can have
EntityIds == 0..(NUM_ARROW_DIRECTIONS + 2 + 2 * MaxInputs)

\* the time of the last frame of the session
SessionEnd == instants[Len(instants)]

Member(list, id) == IdIndex(list, id) # 0

\* the deadlines (miss callback, Terminate) in the queue of an entity
DeadlinesOf(s) == {s.actions[j].start_time : j \in {k \in 1..Len(s.actions) : Deadline(s.actions[k])}}

\* the entity of this id is in the list although it has no deadline to come:
\* none at all, or one that the session reaches
Expiring(list, id) ==
    /\ Member(list, id)
    /\ \/ DeadlinesOf(list[IdIndex(list, id)]) = {}
       \/ \E d \in DeadlinesOf(list[IdIndex(list, id)]) : d <= SessionEnd

\* every entity left in a list has its deadlines after the end of the session
NoneExpiring ==
    \A id \in EntityIds : ~Expiring(sprites, id) /\ ~Expiring(flashers, id)

\* C34: while the frames go on, every arrow spawned leaves the active queue
\* and every cue leaves the cue list, once the clock passes its deadline at
\* the latest; neither list keeps an entity for ever.  An identity is never
\* given twice, so an entity that left does not come back: from some frame on
\* every entity in a list has its deadlines after the end of the session.
C34_EntitiesLeave == <>[](NoneExpiring \/ crashed)

\* arrows were removed at their deadline, cues were shown, and the cue list
\* is empty again
C34_Witness ==
    /\ AfterUpdate
    /\ ~crashed
    /\ \E i \in 1..Len(removedBy) : removedBy[i].who \in {"arrowMissDelegate", "removeSprite"}
    /\ nextId > NUM_ARROW_DIRECTIONS + Len(Spawned)
    /\ flashers = <<>>
    /\ sprites = <<>>

\* every step of the program is a step of the loop as FairSpec sees it
StepsAreLoopSteps == [][<<pc, events>>' # <<pc, events>>]_vars

-----------------------------------------------------------------------------
(* The walk of update over the copy of the queue, checked under Spec *)

\* the actions that the frame update whose record is tr executed for an entity
ExecutedFor(tr, id) == SelectSeq(tr, LAMBDA e : IsExec(e) /\ e.id = id)

\* how many times an action is in a queue, and in a sequence of executions
TimesQueued(actions, a) == Cardinality({i \in 1..Len(actions) : actions[i] = a})

TimesExecuted(ex, a) == Cardinality({i \in 1..Len(ex) : ex[i].action = a})

\* the entities that are in the three lists when the frame update begins
AtFrameStart ==
    {sprites[k] : k \in 1..Len(sprites)}
        \cup {flashers[k] : k \in 1..Len(flashers)}
        \cup {hudArrowFlashers[k] : k \in 1..Len(hudArrowFlashers)}

\* the frame update executes an action of an entity no more often than it was
\* in the queue of the entity when the frame began, and executes no action
\* twice for an entity that it created
WalksTheCopy ==
    (pc = "events" /\ pc' = "tick") =>
        /\ \A s \in AtFrameStart : \A i \in 1..Len(ExecutedFor(trace', s.id)) :
              TimesExecuted(ExecutedFor(trace', s.id), ExecutedFor(trace', s.id)[i].action)
                  <= TimesQueued(s.actions, ExecutedFor(trace', s.id)[i].action)
        /\ \A id \in EntityIds \ {s.id : s \in AtFrameStart} :
              \A i \in 1..Len(ExecutedFor(trace', id)) :
                  TimesExecuted(ExecutedFor(trace', id), ExecutedFor(trace', id)[i].action) = 1

\* C35: update executes each action at most once per tick: it walks the
\* actions that were in the queue when the tick began; an action that a
\* callback queues during the tick waits for a later tick even when its start
\* time is already due, so a callback that re-arms itself in the past does not
\* run again within the tick.
C35_WalksTheCopy == [][WalksTheCopy]_vars

\* a frame update ran the pulse callback of a HUD arrow once, and the callback
\* that it queued, already due, is still in the queue
C35_Witness ==
    /\ AfterUpdate
    /\ ~crashed
    /\ \E k \in 1..Len(hudArrowFlashers) :
          /\ Len(SelectSeq(PulseExecs, LAMBDA e : e.id = hudArrowFlashers[k].id)) = 1
          /\ \E j \in 1..Len(hudArrowFlashers[k].actions) :
                /\ hudArrowFlashers[k].actions[j].action = ACTION_CALLBACK
                /\ hudArrowFlashers[k].actions[j].start_time <= now
====
